---- MODULE Spec2Model ----
(***************************************************************************)
(* State machine of the PDF editor session (PDFEditor.tsx) together with   *)
(* the page canvas handler of PDFViewer.tsx and the element callbacks of   *)
(* DraggableText / DraggableSignature.  Every React event handler is one   *)
(* atomic action; timers (setTimeout) and image loads (img.onload) that a  *)
(* handler starts are separate actions that fire later.                    *)
(***************************************************************************)
EXTENDS Integers, Sequences, FiniteSets, TLC

\* ------------------------------------------------------------------ bounds
MaxClock == 2            \* element ids handed out (elements created)
MaxSavedSeq == 1         \* saved-signature ids handed out
MaxImgLoads == 1         \* signature images decoding at the same time
MaxSavedRun == 12        \* saved-signature ids handed out in SpecSaved
MaxScaleTimers == 1      \* pending scale timers of handlePageLoadSuccess
MaxViewZoom == 12        \* highest user zoom (tenths) explored in SpecView
MaxGestures == 2         \* resize / rotate gestures started in SpecGesture
MaxFormData == 2         \* keys of a formData object
MaxFormFields == 2       \* fields of a PDF form
MaxFormats == 2          \* text-formatting changes of the toolbar
MaxExports == 1          \* exports started in SpecExport

\* ------------------------------------------------------- program constants
Null == 0
SavedLimit == 10
DuplicateOffset == 20
SigDefaultX == 50
SigDefaultY == 50
MinCoord == 5
DefaultCanvasWidth == 400
DefaultCanvasHeight == 200
DefaultZoom == 10        \* user zoom is counted in tenths: 1.0
ZoomStep == 2            \* 0.2
MaxZoom == 30            \* 3
MinZoom == 5             \* 0.5
MinWidth == 20           \* Math.max(20, ...) of a resize
MinHeight == 10          \* Math.max(10, ...) of a resize
SnapStep == 15           \* shift-snap of a rotation, degrees
FullTurn == 360
PreviewLength == 100     \* characters of imageData kept in imageDataPreview

Tools == {"select", "text", "signature"}
Keys == {"v", "t", "s", "ctrl+d", "escape"}
KeyTargets == {"input", "textarea", "other"}
ClickTargets == {"page", "custom", "formField"}
ClickPoints == {<<0, 30>>}             \* results of displayToPDF for a click
PageCounts == {2}                      \* numPages reported by the loaded PDF
Images == {"imgA"}                     \* data URLs drawn on the canvas
NaturalSizes == {<<300, 0>>}           \* img.naturalWidth / naturalHeight
PageSizes == {<<0, 800>>, <<600, 800>>}     \* page.width / page.height
DisplayRects == {<<0, 0>>, <<300, 400>>}    \* pageRef getBoundingClientRect
DragPositions == {<<10, 20>>, <<30, 40>>}   \* data.x / data.y of onDrag
FontFamilies == {"Arial", "Georgia"}        \* two of the fontFamilies options
FontSizes == {16, 24}                       \* two of the fontSizes options
Colors == {"#000000", "#FF0000"}            \* two of the colors options
PdfPoints == {<<0, 0>>, <<50, 30>>, <<7, 200>>}   \* points to convert
Corners == {"nw", "ne", "sw", "se", "n", "s", "e", "w"}
\* pointer movement since the start of a resize, in pixels
PointerDeltas == {<<60, 30>>, <<-400, 10>>, <<20, -300>>, <<-7, 250>>}
\* currentAngle - startAngle of a rotation, in tenths of a degree
AngleDiffs == {-4, 900, 3550}
InputKeys == {"Enter", "Escape", "a"}      \* keys pressed in the inline input
Contents == {"", " ", "New Text", "abc"}        \* e.target.value of the input

VARIABLES
  docOpen,              \* document !== null
  loadState,            \* react-pdf <Document>: "none" | "loading" | "loaded" | "failed"
  numPages,             \* document.numPages
  textElements,         \* document.textElements
  signatureElements,    \* document.signatureElements
  currentPage,
  selectedTextId,
  selectedSignatureId,
  editingTextId,
  showSignatureCanvas,
  savedSignatures,
  toolbarState,
  storage,              \* localStorage[SAVED_SIGNATURES_KEY]
  editTimers,           \* ids with a pending 50 ms edit-start timer
  imgLoads,             \* image loads started by handleSignatureSave
  clock,                \* element ids generated so far (Date.now() + random)
  savedSeq,             \* saved-signature ids generated so far
  lastOp,               \* the handler that ran last (history variable)
  userZoom,             \* PDFViewer: user zoom, in tenths (10 = 100%)
  pageWidth,            \* PDFViewer: page.width of the loaded page
  pageHeight,           \* PDFViewer: page.height of the loaded page
  scaleInfo,            \* usePDFScale: the PDFScaleInfo record
  scaleTimers,          \* pending 100 ms timers of handlePageLoadSuccess
  gesture,              \* DraggableSignature: closure of the running gesture
  gestureSeq,           \* gestures started so far
  exportRun,            \* the export started last: closure, position, outcome
  exportSeq,            \* exports started so far
  tracker,              \* FormFieldTracker: the singleton and its timers
  widgets,              \* the form widgets of the page: state and listener
  fill,                 \* a run of fillFormFieldsFuzzy: arguments and loop
  formatSeq             \* Toolbar: text-formatting changes made so far

\* state of PDFViewer and its usePDFScale hook
viewerVars == <<userZoom, pageWidth, pageHeight, scaleInfo, scaleTimers>>

\* state owned by components other than PDFEditor
\* a resize or rotate gesture of DraggableSignature
gestureVars == <<gesture, gestureSeq>>

\* a run of handleExportPDF / handleExportImage / exportPDFWithFormData
exportVars == <<exportRun, exportSeq>>

\* the form-field tracker and the form widgets it watches
trackerVars == <<tracker, widgets>>

\* a run of fillFormFieldsFuzzy
fillVars == <<fill>>

\* the text-formatting controls of Toolbar
toolbarVars == <<formatSeq>>

componentVars == <<viewerVars, gestureVars, exportVars, trackerVars,
                   fillVars, toolbarVars>>

vars == <<docOpen, loadState, numPages, textElements, signatureElements,
          currentPage, selectedTextId, selectedSignatureId, editingTextId,
          showSignatureCanvas, savedSignatures, toolbarState, storage,
          editTimers, imgLoads, clock, savedSeq, lastOp, componentVars>>

docVars == <<docOpen, loadState, numPages, textElements, signatureElements>>
selVars == <<selectedTextId, selectedSignatureId, editingTextId>>

\* --------------------------------------------------------------- helpers
Max(a, b) == IF a >= b THEN a ELSE b
Min(a, b) == IF a <= b THEN a ELSE b

Ids(seq) == {seq[i].id : i \in 1..Len(seq)}

\* Array.prototype.find by id: the first element with that id
FindById(seq, id) ==
  LET hits == {i \in 1..Len(seq) : seq[i].id = id}
  IN  IF hits = {} THEN 0 ELSE CHOOSE i \in hits : \A j \in hits : i <= j

\* Array.prototype.filter(element => element.id !== id)
RemoveById(seq, id) == SelectSeq(seq, LAMBDA e : e.id # id)

\* Array.prototype.slice(0, n)
Slice(seq, n) == SubSeq(seq, 1, Min(n, Len(seq)))

RemoveAt(seq, i) == SubSeq(seq, 1, i - 1) \o SubSeq(seq, i + 1, Len(seq))

\* lastOp names the handler only where a property below is about it
Tracked == {"textDelete", "signatureDelete", "escape", "suppressed",
            "duplicate", "useSavedSignature", "imgOnload", "resize",
            "rotate", "inputEnter", "inputEscape", "inputBlur",
            "toolbarFormat"}
Op(op, id) == IF op \in Tracked THEN [op |-> op, id |-> id]
              ELSE [op |-> "other", id |-> Null]

InitialToolbarState ==
  [selectedTool |-> "select", fontSize |-> 16, fontFamily |-> "Arial",
   color |-> "#000000", fontWeight |-> "normal", fontStyle |-> "normal",
   signatureCanvasWidth |-> DefaultCanvasWidth,
   signatureCanvasHeight |-> DefaultCanvasHeight,
   signatureColor |-> "#000000"]

\* ------------------------------------------------ saved-signature storage
\* a stored value is nothing ("absent"), text JSON.parse rejects
\* ("unparseable"), a JSON array ("array") or JSON of another kind, here an
\* object ("object"); value is what JSON.parse returns for it
JsonObject == [json |-> "object"]

\* loadSavedSignatures: stored ? JSON.parse(stored) : [], [] on a parse error;
\* whatever JSON.parse returns is handed on as it is
loadSavedSignatures(st) ==
  IF st.kind \in {"array", "object"} THEN st.value ELSE <<>>

\* saveSavedSignatures: setItem(JSON.stringify(list)); a throwing setItem is
\* swallowed and leaves the stored value as it was
saveSavedSignatures(st, list, ok) ==
  IF ok THEN [kind |-> "array", value |-> list] ELSE st

\* the run of the persisting effect on the value just loaded from st:
\* JSON.stringify gives a JSON array for a list and, for the parsed object,
\* JSON of the object that was stored
PersistLoaded(st, ok) ==
  IF st.kind = "object" THEN st
  ELSE saveSavedSignatures(st, loadSavedSignatures(st), ok)

\* setSavedSignatures(prev => [savedSignature, ...prev].slice(0, 10))
AddSavedSignature(prev, sig) == Slice(<<sig>> \o prev, SavedLimit)

\* the element both dialog paths and the reuse path build
NewSignatureElementSwapped(id, img, w, h, color, page, ts) ==
  [id |-> id, imageData |-> img, x |-> SigDefaultX, y |-> SigDefaultY,
   width |-> h, height |-> w, rotation |-> 0, color |-> color,
   opacity |-> 1, pageNumber |-> page, timestamp |-> ts]
NewSignatureElement(id, img, w, h, color, page, ts) ==
  [id |-> id, imageData |-> img, x |-> SigDefaultX, y |-> SigDefaultY,
   width |-> w, height |-> h, rotation |-> 0, color |-> color,
   opacity |-> 1, pageNumber |-> page, timestamp |-> ts]

\* elements the viewer renders: those of the current page, once the
\* <Document> has loaded
Rendered(seq) ==
  IF loadState = "loaded"
  THEN {seq[i].id : i \in {j \in 1..Len(seq) : seq[j].pageNumber = currentPage}}
  ELSE {}

\* the signature dialog is modal while it is mounted and open
DialogVisible == docOpen /\ showSignatureCanvas

\* ---------------------------------------------------------- usePDFScale
\* JavaScript numbers that need not be whole: a rational n/d in lowest
\* terms (d > 0), Infinity, or NaN.  x / 0 is Infinity for x > 0, 0 / 0 and
\* Infinity / Infinity and 0 * Infinity are NaN, as in IEEE 754; the rounding
\* of doubles is not modelled.  Division and multiplication are used on
\* non-negative numbers only (sizes, scales, coordinates).
RECURSIVE Gcd(_, _)
Gcd(a, b) == IF b = 0 THEN a ELSE Gcd(b, a % b)

Abs(a) == IF a < 0 THEN -a ELSE a

Fin(n, d) ==
  LET g == Gcd(Abs(n), d) IN [k |-> "fin", n |-> n \div g, d |-> d \div g]
Infinity == [k |-> "inf", n |-> 1, d |-> 0]
NaN == [k |-> "nan", n |-> 0, d |-> 0]

NumDiv(a, b) ==
  IF a.k = "nan" \/ b.k = "nan" THEN NaN
  ELSE IF a.k = "inf" THEN (IF b.k = "inf" THEN NaN ELSE Infinity)
  ELSE IF b.k = "inf" THEN Fin(0, 1)
  ELSE IF b.n = 0 THEN (IF a.n = 0 THEN NaN ELSE Infinity)
  ELSE Fin(a.n * b.d, a.d * b.n)

NumMul(a, b) ==
  IF a.k = "nan" \/ b.k = "nan" THEN NaN
  ELSE IF a.k = "inf" THEN (IF b.n = 0 /\ b.k = "fin" THEN NaN ELSE Infinity)
  ELSE IF b.k = "inf" THEN (IF a.n = 0 THEN NaN ELSE Infinity)
  ELSE Fin(a.n * b.n, a.d * b.d)

\* a + b, a - b, Math.max(a, b), Math.abs(a) and a > b on finite numbers
NumAdd(a, b) == Fin(a.n * b.d + b.n * a.d, a.d * b.d)
NumSub(a, b) == Fin(a.n * b.d - b.n * a.d, a.d * b.d)
NumGreater(a, b) == a.n * b.d > b.n * a.d
NumMax(a, b) == IF NumGreater(b, a) THEN b ELSE a
NumAbs(a) == Fin(Abs(a.n), a.d)

\* no document-level mousemove / mouseup listeners are registered
NoGesture ==
  [kind |-> "none", id |-> Null, corner |-> "none", startWidth |-> Fin(0, 1),
   startHeight |-> Fin(0, 1), scale |-> Fin(1, 1), startRotation |-> 0,
   screen |-> <<Fin(0, 1), Fin(0, 1)>>, inThrottle |-> FALSE]

\* let formFieldTracker = null: no tracker exists, no timer of one is
\* pending; formData is a function from the field names set so far
NoTracker ==
  [status |-> "none", interval |-> FALSE, timeout |-> FALSE,
   formFields |-> <<>>, formData |-> <<>>]

\* the form widgets react-pdf renders on the page, in document order, all of
\* them check boxes or radio buttons: their name attribute ("" for none)
WidgetNames == <<"choice", "choice", "">>

\* no widget is checked and none carries a _formFieldListener
InitialWidgets ==
  [i \in 1..Len(WidgetNames) |-> [checked |-> FALSE, listener |-> "none"]]

\* fillFormFieldsFuzzy has not been called
NoFill == [pc |-> "idle", formData |-> <<>>, fields |-> <<>>, i |-> 1]

\* no export has been started; of a run: the document and page its closure
\* holds, the notifications it has shown, whether its file was handed to the
\* browser (saved) and the elements drawn into it
NoExport ==
  [kind |-> "none", pc |-> "idle", textElements |-> <<>>,
   signatureElements |-> <<>>, currentPage |-> 1, numPages |-> 0,
   toasts |-> <<>>, saved |-> FALSE, texts |-> {}, signatures |-> {},
   project |-> <<>>]

\* useState<PDFScaleInfo>({ displayScale: 1, ... userZoom: 1 })
InitialScaleInfo ==
  [displayScale |-> Fin(1, 1), pdfWidth |-> 0, pdfHeight |-> 0,
   displayWidth |-> 0, displayHeight |-> 0, userZoom |-> DefaultZoom]

\* updateScaleInfo: displayScale = (displayWidth / pdfWidth) * userZoom,
\* stored with its arguments (userZoom in tenths)
updateScaleInfo(info, pdfW, pdfH, dispW, dispH, zoom) ==
  [displayScale |-> NumMul(NumDiv(Fin(dispW, 1), Fin(pdfW, 1)),
                           Fin(zoom, 10)),
   pdfWidth |-> pdfW, pdfHeight |-> pdfH,
   displayWidth |-> dispW, displayHeight |-> dispH, userZoom |-> zoom]

\* displayToPDF: { x: x / displayScale, y: y / displayScale }
displayToPDF(info, p) ==
  <<NumDiv(p[1], info.displayScale), NumDiv(p[2], info.displayScale)>>

\* pdfToDisplay: { x: x * displayScale, y: y * displayScale }
pdfToDisplay(info, p) ==
  <<NumMul(p[1], info.displayScale), NumMul(p[2], info.displayScale)>>

\* ------------------------------------------------------------------ Init
InitSession ==
  /\ docOpen = FALSE
  /\ loadState = "none"
  /\ numPages = 0
  /\ textElements = <<>>
  /\ signatureElements = <<>>
  /\ currentPage = 1
  /\ selectedTextId = Null
  /\ selectedSignatureId = Null
  /\ editingTextId = Null
  /\ showSignatureCanvas = FALSE
  /\ toolbarState = InitialToolbarState
  /\ editTimers = {}
  /\ imgLoads = <<>>
  /\ clock = 0
  /\ lastOp = Op("init", Null)
  /\ userZoom = DefaultZoom
  /\ pageWidth = 0
  /\ pageHeight = 0
  /\ scaleInfo = InitialScaleInfo
  /\ scaleTimers = {}
  /\ gesture = NoGesture
  /\ gestureSeq = 0
  /\ exportRun = NoExport
  /\ exportSeq = 0
  /\ tracker = NoTracker
  /\ widgets = InitialWidgets
  /\ fill = NoFill
  /\ formatSeq = 0

\* first visit: nothing is stored; the mount effect stores the empty list
\* unless storage is unavailable
Init ==
  /\ InitSession
  /\ savedSignatures = <<>>
  /\ storage \in {[kind |-> "absent", value |-> <<>>],
                  [kind |-> "array", value |-> <<>>]}
  /\ savedSeq = 0

\* --------------------------------------------------------------- actions
\* handleFileUpload: only reachable from the upload view (document === null)
FileUpload ==
  /\ ~docOpen
  /\ docOpen' = TRUE
  /\ loadState' = "loading"
  /\ numPages' = 0
  /\ textElements' = <<>>
  /\ signatureElements' = <<>>
  /\ currentPage' = 1
  /\ selectedTextId' = Null
  /\ selectedSignatureId' = Null
  /\ editingTextId' = Null
  /\ lastOp' = Op("fileUpload", Null)
  /\ UNCHANGED <<showSignatureCanvas, savedSignatures, toolbarState, storage,
                 editTimers, imgLoads, clock, savedSeq>>
  /\ UNCHANGED componentVars

\* handleDocumentLoadSuccess -> handleNumPagesChange
DocumentLoadSuccess(n) ==
  /\ docOpen /\ loadState = "loading"
  /\ loadState' = "loaded"
  /\ numPages' = n
  /\ lastOp' = Op("documentLoadSuccess", Null)
  /\ UNCHANGED <<docOpen, textElements, signatureElements, currentPage,
                 selVars, showSignatureCanvas, savedSignatures, toolbarState,
                 storage, editTimers, imgLoads, clock, savedSeq>>
  /\ UNCHANGED componentVars

\* handleDocumentLoadError: nothing is recorded, numPages stays 0
DocumentLoadError ==
  /\ docOpen /\ loadState = "loading"
  /\ loadState' = "failed"
  /\ lastOp' = Op("documentLoadError", Null)
  /\ UNCHANGED <<docOpen, numPages, textElements, signatureElements,
                 currentPage, selVars, showSignatureCanvas, savedSignatures,
                 toolbarState, storage, editTimers, imgLoads, clock, savedSeq>>
  /\ UNCHANGED componentVars

\* page buttons: onPageChange(max(1, p - 1)) / onPageChange(min(numPages, p + 1))
PageChange(dir) ==
  /\ loadState = "loaded" /\ ~DialogVisible
  /\ IF dir = "prev"
     THEN currentPage > 1 /\ currentPage' = Max(1, currentPage - 1)
     ELSE currentPage < numPages /\ currentPage' = Min(numPages, currentPage + 1)
  /\ lastOp' = Op("pageChange", Null)
  /\ UNCHANGED <<docVars, selVars, showSignatureCanvas, savedSignatures,
                 toolbarState, storage, editTimers, imgLoads, clock, savedSeq>>
  /\ UNCHANGED componentVars

\* ------------------------------------------------- element construction
\* handleCanvasClick, text branch: the element handed to onTextElementAdd
NewTextElement(id, pdfX, pdfY) ==
  [id |-> id, content |-> "New Text",
   x |-> Max(MinCoord, pdfX), y |-> Max(MinCoord, pdfY),
   fontSize |-> toolbarState.fontSize, fontFamily |-> toolbarState.fontFamily,
   color |-> toolbarState.color, fontWeight |-> toolbarState.fontWeight,
   fontStyle |-> toolbarState.fontStyle, pageNumber |-> currentPage]

\* handleDuplicateElement: { ...textElement, id, x: x + 20, y: y + 20 }
DuplicateTextNoOffset(src, id) == [src EXCEPT !.id = id]
DuplicateText(src, id) ==
  [src EXCEPT !.id = id, !.x = @ + DuplicateOffset, !.y = @ + DuplicateOffset]

\* handleDuplicateElement: { ...signatureElement, id, x + 20, y + 20, timestamp }
DuplicateSignature(src, id, ts) ==
  [src EXCEPT !.id = id, !.x = @ + DuplicateOffset, !.y = @ + DuplicateOffset,
              !.timestamp = ts]

\* elements.map(element => element.id === id ? { ...element, ...updates } : element)
\* for the update { x, y, pageNumber } of the signature-tool canvas click
MoveSignature(seq, id, pdfX, pdfY, page) ==
  [i \in 1..Len(seq) |->
     IF seq[i].id = id
     THEN [seq[i] EXCEPT !.x = Max(MinCoord, pdfX), !.y = Max(MinCoord, pdfY),
                         !.pageNumber = page]
     ELSE seq[i]]

\* if (selectedXId === id) setSelectedXId(null)
KeepAfterDelete(sel, id) == sel
ClearAfterDelete(sel, id) == IF sel = id THEN Null ELSE sel

\* Escape: if (selectedXId) setSelectedXId(null)
KeepIfSet(sel) == sel
ClearIfSet(sel) == IF sel # Null THEN Null ELSE sel

\* ----------------------------------------------- add handlers (fragments)
\* handleTextElementAdd, after its `if (!document) return`
TextElementAdd(el) ==
  /\ textElements' = Append(textElements, el)
  /\ selectedTextId' = el.id
  /\ selectedSignatureId' = Null
  /\ editTimers' = editTimers \cup {el.id}
  /\ toolbarState' = [toolbarState EXCEPT !.selectedTool = "select"]

\* handleSignatureElementAdd, after its `if (!document) return`
SignatureElementAdd(el) ==
  /\ signatureElements' = Append(signatureElements, el)
  /\ selectedSignatureId' = el.id
  /\ selectedTextId' = Null
  /\ toolbarState' = [toolbarState EXCEPT !.selectedTool = "select"]

\* ---------------------------------------------------------- page canvas
\* PDFViewer.handleCanvasClick; (pdfX, pdfY) is displayToPDF of the click
CanvasClick(target, pdfX, pdfY) ==
  /\ loadState = "loaded" /\ ~DialogVisible
  /\ lastOp' =
       IF target = "page" /\ toolbarState.selectedTool = "text"
       THEN Op("placeText", clock + 1)
       ELSE IF /\ target = "page" /\ toolbarState.selectedTool = "signature"
               /\ selectedSignatureId # Null
       THEN Op("placeSignature", selectedSignatureId)
       ELSE Op("canvasClick", Null)
  /\ IF target # "page"
     THEN UNCHANGED <<docVars, currentPage, selVars, showSignatureCanvas,
                      savedSignatures, toolbarState, storage, editTimers,
                      imgLoads, clock, savedSeq>>
     ELSE
       CASE toolbarState.selectedTool = "text" ->
              /\ clock' = clock + 1
              /\ TextElementAdd(NewTextElement(clock + 1, pdfX, pdfY))
              /\ UNCHANGED <<docOpen, loadState, numPages, signatureElements,
                             currentPage, editingTextId, showSignatureCanvas,
                             savedSignatures, storage, imgLoads, savedSeq>>
         [] toolbarState.selectedTool = "signature" ->
              /\ signatureElements' =
                   IF selectedSignatureId # Null
                   THEN MoveSignature(signatureElements, selectedSignatureId,
                                      pdfX, pdfY, currentPage)
                   ELSE signatureElements
              /\ UNCHANGED <<docOpen, loadState, numPages, textElements,
                             currentPage, selVars, showSignatureCanvas,
                             savedSignatures, toolbarState, storage,
                             editTimers, imgLoads, clock, savedSeq>>
         [] toolbarState.selectedTool = "select" ->
              /\ IF selectedTextId # Null \/ selectedSignatureId # Null
                 THEN /\ selectedTextId' = Null
                      /\ selectedSignatureId' = Null
                      /\ editingTextId' = Null
                 ELSE UNCHANGED selVars
              /\ UNCHANGED <<docVars, currentPage, showSignatureCanvas,
                             savedSignatures, toolbarState, storage,
                             editTimers, imgLoads, clock, savedSeq>>
  /\ UNCHANGED componentVars

\* the setTimeout(() => setEditingTextId(newElement.id), 50) of handleTextElementAdd
EditTimerFire(id) ==
  /\ id \in editTimers
  /\ editTimers' = editTimers \ {id}
  /\ editingTextId' = id
  /\ lastOp' = Op("editTimer", id)
  /\ UNCHANGED <<docVars, currentPage, selectedTextId, selectedSignatureId,
                 showSignatureCanvas, savedSignatures, toolbarState, storage,
                 imgLoads, clock, savedSeq>>
  /\ UNCHANGED componentVars

\* ------------------------------------------------------ element callbacks
\* DraggableText.handleClick / handleStart -> handleTextElementSelect(id)
TextElementSelect(id) ==
  /\ id \in Rendered(textElements) /\ ~DialogVisible
  /\ selectedTextId' = id
  /\ selectedSignatureId' = Null
  /\ editingTextId' = Null
  /\ lastOp' = Op("textSelect", id)
  /\ UNCHANGED <<docVars, currentPage, showSignatureCanvas, savedSignatures,
                 toolbarState, storage, editTimers, imgLoads, clock, savedSeq>>
  /\ UNCHANGED componentVars

\* DraggableSignature.handleStart -> handleSignatureElementSelect(id)
SignatureElementSelect(id) ==
  /\ id \in Rendered(signatureElements) /\ ~DialogVisible
  /\ selectedSignatureId' = id
  /\ selectedTextId' = Null
  /\ editingTextId' = Null
  /\ lastOp' = Op("signatureSelect", id)
  /\ UNCHANGED <<docVars, currentPage, showSignatureCanvas, savedSignatures,
                 toolbarState, storage, editTimers, imgLoads, clock, savedSeq>>
  /\ UNCHANGED componentVars

\* DraggableText.handleDoubleClick -> handleStartEdit(id); the text <div>
\* with the handler is shown while the element is not in edit mode.  The
\* handler has no condition on the selection: that a click (handleClick ->
\* onSelect) comes before a dblclick is the pointing device's doing, not the
\* handler's, and the action is enabled whenever the callback can be called
StartEdit(id) ==
  /\ id \in Rendered(textElements) /\ ~DialogVisible
  /\ editingTextId # id
  /\ editingTextId' = id
  /\ selectedTextId' = id
  /\ lastOp' = Op("startEdit", id)
  /\ UNCHANGED <<docVars, currentPage, selectedSignatureId,
                 showSignatureCanvas, savedSignatures, toolbarState, storage,
                 editTimers, imgLoads, clock, savedSeq>>
  /\ UNCHANGED componentVars

\* the inline <input>: Enter, Escape or blur -> handleStopEdit()
StopEdit ==
  /\ editingTextId \in Rendered(textElements)
  /\ editingTextId' = Null
  /\ lastOp' = Op("stopEdit", editingTextId)
  /\ UNCHANGED <<docVars, currentPage, selectedTextId, selectedSignatureId,
                 showSignatureCanvas, savedSignatures, toolbarState, storage,
                 editTimers, imgLoads, clock, savedSeq>>
  /\ UNCHANGED componentVars

\* handleTextElementUpdate(id, { content }):
\* textElements.map(el => el.id === id ? { ...el, ...updates } : el)
SetContent(seq, id, value) ==
  [i \in 1..Len(seq) |->
     IF seq[i].id = id THEN [seq[i] EXCEPT !.content = value] ELSE seq[i]]

\* DraggableText.handleTextChange: every change of the inline input is
\* written to the element at once
TextChange(value) ==
  /\ editingTextId \in Rendered(textElements)
  /\ docOpen
  /\ textElements' = SetContent(textElements, editingTextId, value)
  /\ lastOp' = Op("textChange", editingTextId)
  /\ UNCHANGED <<docOpen, loadState, numPages, signatureElements,
                 currentPage, selVars, showSignatureCanvas, savedSignatures,
                 toolbarState, storage, editTimers, imgLoads, clock, savedSeq>>
  /\ UNCHANGED componentVars

\* DraggableText.handleKeyDown of the inline input: Enter and Escape call
\* onStopEdit (handleStopEdit).  The event then reaches the document-level
\* handler with the input as its target, which returns at its guard.
InputKeyDownEscapeIgnored(key) ==
  /\ editingTextId \in Rendered(textElements)
  /\ editingTextId' = IF key = "Enter" THEN Null ELSE editingTextId
  /\ lastOp' = Op(CASE key = "Enter" -> "inputEnter"
                     [] key = "Escape" -> "inputEscape"
                     [] OTHER -> "inputKey", editingTextId)
  /\ UNCHANGED <<docVars, currentPage, selectedTextId, selectedSignatureId,
                 showSignatureCanvas, savedSignatures, toolbarState, storage,
                 editTimers, imgLoads, clock, savedSeq>>
  /\ UNCHANGED componentVars
InputKeyDown(key) ==
  /\ editingTextId \in Rendered(textElements)
  /\ editingTextId' =
       IF key = "Enter" \/ key = "Escape" THEN Null ELSE editingTextId
  /\ lastOp' = Op(CASE key = "Enter" -> "inputEnter"
                     [] key = "Escape" -> "inputEscape"
                     [] OTHER -> "inputKey", editingTextId)
  /\ UNCHANGED <<docVars, currentPage, selectedTextId, selectedSignatureId,
                 showSignatureCanvas, savedSignatures, toolbarState, storage,
                 editTimers, imgLoads, clock, savedSeq>>
  /\ UNCHANGED componentVars

\* onBlur={onStopEdit} of the inline input
InputBlur ==
  /\ editingTextId \in Rendered(textElements)
  /\ editingTextId' = Null
  /\ lastOp' = Op("inputBlur", editingTextId)
  /\ UNCHANGED <<docVars, currentPage, selectedTextId, selectedSignatureId,
                 showSignatureCanvas, savedSignatures, toolbarState, storage,
                 editTimers, imgLoads, clock, savedSeq>>
  /\ UNCHANGED componentVars

\* DraggableText.handleDelete -> handleTextElementDelete(id); the button is
\* rendered while the element is selected and not in edit mode
TextElementDelete(id) ==
  /\ id \in Rendered(textElements) /\ ~DialogVisible
  /\ selectedTextId = id /\ editingTextId # id
  /\ textElements' = RemoveById(textElements, id)
  /\ selectedTextId' = ClearAfterDelete(selectedTextId, id)
  /\ editingTextId' = ClearAfterDelete(editingTextId, id)
  /\ lastOp' = Op("textDelete", id)
  /\ UNCHANGED <<docOpen, loadState, numPages, signatureElements, currentPage,
                 selectedSignatureId, showSignatureCanvas, savedSignatures,
                 toolbarState, storage, editTimers, imgLoads, clock, savedSeq>>
  /\ UNCHANGED componentVars

\* DraggableSignature delete button (rendered while selected)
\* -> handleSignatureElementDelete(id)
SignatureElementDelete(id) ==
  /\ id \in Rendered(signatureElements) /\ ~DialogVisible
  /\ selectedSignatureId = id
  /\ signatureElements' = RemoveById(signatureElements, id)
  /\ selectedSignatureId' = ClearAfterDelete(selectedSignatureId, id)
  /\ lastOp' = Op("signatureDelete", id)
  /\ UNCHANGED <<docOpen, loadState, numPages, textElements, currentPage,
                 selectedTextId, editingTextId, showSignatureCanvas,
                 savedSignatures, toolbarState, storage, editTimers, imgLoads,
                 clock, savedSeq>>
  /\ UNCHANGED componentVars

\* ---------------------------------------------------------------- toolbar
\* handleToolbarChange({ selectedTool: tool }) from the toolbar's tool buttons
ToolbarSelectTool(tool) ==
  /\ docOpen /\ ~DialogVisible
  /\ toolbarState' = [toolbarState EXCEPT !.selectedTool = tool]
  /\ showSignatureCanvas' =
       IF tool = "signature" /\ tool # toolbarState.selectedTool
       THEN TRUE ELSE showSignatureCanvas
  /\ lastOp' = Op("toolbarChange", Null)
  /\ UNCHANGED <<docVars, currentPage, selVars, savedSignatures, storage,
                 editTimers, imgLoads, clock, savedSeq>>
  /\ UNCHANGED componentVars

\* the updates the text-formatting controls of the toolbar hand to
\* onToolbarChange: the two selects, the colour buttons, and the bold and
\* italic buttons, which toggle the toolbar's own value
FormatAttrs ==
  {"fontFamily", "fontSize", "color", "fontWeight", "fontStyle"}
FormatValues(attr) ==
  CASE attr = "fontFamily" -> FontFamilies
    [] attr = "fontSize" -> FontSizes
    [] attr = "color" -> Colors
    [] attr = "fontWeight" ->
         {IF toolbarState.fontWeight = "bold" THEN "normal" ELSE "bold"}
    [] attr = "fontStyle" ->
         {IF toolbarState.fontStyle = "italic" THEN "normal" ELSE "italic"}

\* handleTextElementUpdate(id, { [attr]: value })
UpdateTextElement(seq, id, attr, value) ==
  [i \in 1..Len(seq) |->
     IF seq[i].id = id THEN [seq[i] EXCEPT ![attr] = value] ELSE seq[i]]

\* handleToolbarChange({ [attr]: value }) from a text-formatting control
ToolbarChangeEveryText(attr, value) ==
  /\ docOpen /\ ~DialogVisible
  /\ toolbarState' = [toolbarState EXCEPT ![attr] = value]
  /\ textElements' =
       IF selectedTextId # Null
       THEN [i \in 1..Len(textElements) |->
               [textElements[i] EXCEPT ![attr] = value]]
       ELSE textElements
  /\ lastOp' = Op("toolbarFormat", selectedTextId)
  /\ UNCHANGED <<docOpen, loadState, numPages, signatureElements,
                 currentPage, selVars, showSignatureCanvas, savedSignatures,
                 storage, editTimers, imgLoads, clock, savedSeq>>
  /\ formatSeq' = formatSeq + 1
  /\ UNCHANGED <<viewerVars, gestureVars, exportVars, trackerVars, fillVars>>
ToolbarChange(attr, value) ==
  /\ docOpen /\ ~DialogVisible
  /\ toolbarState' = [toolbarState EXCEPT ![attr] = value]
  /\ textElements' =
       IF selectedTextId # Null
       THEN UpdateTextElement(textElements, selectedTextId, attr, value)
       ELSE textElements
  /\ lastOp' = Op("toolbarFormat", selectedTextId)
  /\ UNCHANGED <<docOpen, loadState, numPages, signatureElements,
                 currentPage, selVars, showSignatureCanvas, savedSignatures,
                 storage, editTimers, imgLoads, clock, savedSeq>>
  /\ formatSeq' = formatSeq + 1
  /\ UNCHANGED <<viewerVars, gestureVars, exportVars, trackerVars, fillVars>>

\* -------------------------------------------------------------- keyboard
\* guard of the document-level handleKeyDown
SuppressedWhileEditingOnly(target) == editingTextId # Null
ShortcutSuppressed(target) ==
  \/ editingTextId # Null
  \/ showSignatureCanvas
  \/ target \in {"input", "textarea"}

\* handleDuplicateElement
DuplicateElement ==
  IF ~docOpen THEN
    UNCHANGED <<textElements, signatureElements, selectedTextId,
                selectedSignatureId, clock>>
  ELSE IF selectedTextId # Null THEN
    LET i == FindById(textElements, selectedTextId) IN
    IF i # 0
    THEN /\ clock' = clock + 1
         /\ textElements' =
              Append(textElements, DuplicateText(textElements[i], clock + 1))
         /\ selectedTextId' = clock + 1
         /\ selectedSignatureId' = Null
         /\ UNCHANGED signatureElements
    ELSE UNCHANGED <<textElements, signatureElements, selectedTextId,
                     selectedSignatureId, clock>>
  ELSE IF selectedSignatureId # Null THEN
    LET i == FindById(signatureElements, selectedSignatureId) IN
    IF i # 0
    THEN /\ clock' = clock + 1
         /\ signatureElements' =
              Append(signatureElements,
                     DuplicateSignature(signatureElements[i], clock + 1,
                                        clock + 1))
         /\ selectedSignatureId' = clock + 1
         /\ selectedTextId' = Null
         /\ UNCHANGED textElements
    ELSE UNCHANGED <<textElements, signatureElements, selectedTextId,
                     selectedSignatureId, clock>>
  ELSE UNCHANGED <<textElements, signatureElements, selectedTextId,
                   selectedSignatureId, clock>>

\* the keydown listener on window.document
KeyDown(key, target) ==
  /\ IF ShortcutSuppressed(target)
     THEN UNCHANGED <<docVars, currentPage, selVars, showSignatureCanvas,
                      savedSignatures, toolbarState, storage, editTimers,
                      imgLoads, clock, savedSeq>>
     ELSE
       CASE key = "ctrl+d" ->
              /\ IF selectedTextId # Null \/ selectedSignatureId # Null
                 THEN DuplicateElement
                 ELSE UNCHANGED <<textElements, signatureElements,
                                  selectedTextId, selectedSignatureId, clock>>
              /\ UNCHANGED <<docOpen, loadState, numPages, currentPage,
                             editingTextId, showSignatureCanvas,
                             savedSignatures, toolbarState, storage,
                             editTimers, imgLoads, savedSeq>>
         [] key = "v" ->
              /\ toolbarState' = [toolbarState EXCEPT !.selectedTool = "select"]
              /\ UNCHANGED <<docVars, currentPage, selVars,
                             showSignatureCanvas, savedSignatures, storage,
                             editTimers, imgLoads, clock, savedSeq>>
         [] key = "t" ->
              /\ toolbarState' = [toolbarState EXCEPT !.selectedTool = "text"]
              /\ UNCHANGED <<docVars, currentPage, selVars,
                             showSignatureCanvas, savedSignatures, storage,
                             editTimers, imgLoads, clock, savedSeq>>
         [] key = "s" ->
              /\ toolbarState' =
                   [toolbarState EXCEPT !.selectedTool = "signature"]
              /\ showSignatureCanvas' = TRUE
              /\ UNCHANGED <<docVars, currentPage, selVars, savedSignatures,
                             storage, editTimers, imgLoads, clock, savedSeq>>
         [] key = "escape" ->
              /\ toolbarState' = [toolbarState EXCEPT !.selectedTool = "select"]
              /\ selectedTextId' = ClearIfSet(selectedTextId)
              /\ selectedSignatureId' = ClearIfSet(selectedSignatureId)
              /\ editingTextId' = ClearIfSet(editingTextId)
              /\ showSignatureCanvas' =
                   IF showSignatureCanvas THEN FALSE ELSE showSignatureCanvas
              /\ UNCHANGED <<docVars, currentPage, savedSignatures, storage,
                             editTimers, imgLoads, clock, savedSeq>>
         [] OTHER ->
              UNCHANGED <<docVars, currentPage, selVars, showSignatureCanvas,
                          savedSignatures, toolbarState, storage, editTimers,
                          imgLoads, clock, savedSeq>>
  /\ lastOp' =
       IF ShortcutSuppressed(target) THEN Op("suppressed", Null)
       ELSE IF key = "escape" THEN Op("escape", Null)
       ELSE IF key = "ctrl+d" /\ clock' # clock THEN Op("duplicate", clock')
       ELSE Op("keyDown", Null)
  /\ UNCHANGED componentVars

\* ------------------------------------------------------ signature dialog
\* SignatureCanvas save button -> handleSignatureSave(imageData): starts the
\* image load with the values its closure holds (the display name
\* `Signature ${savedSignatures.length + 1}` labels the entry only and is
\* left out of the record)
SignatureSave(img) ==
  /\ DialogVisible
  /\ Len(imgLoads) < MaxImgLoads
  /\ imgLoads' = Append(imgLoads,
        [imageData |-> img, pageNumber |-> currentPage,
         color |-> toolbarState.signatureColor,
         canvasWidth |-> toolbarState.signatureCanvasWidth,
         canvasHeight |-> toolbarState.signatureCanvasHeight])
  /\ lastOp' = Op("signatureSave", Null)
  /\ UNCHANGED <<docVars, currentPage, selVars, showSignatureCanvas,
                 savedSignatures, toolbarState, storage, editTimers, clock, savedSeq>>
  /\ UNCHANGED componentVars

\* img.onload of handleSignatureSave
ImgOnload(i, nat, ok) ==
  /\ i \in 1..Len(imgLoads)
  /\ LET ld == imgLoads[i]
         w == Fin(IF nat[1] # 0 THEN nat[1] ELSE ld.canvasWidth, 1)
         h == Fin(IF nat[2] # 0 THEN nat[2] ELSE ld.canvasHeight, 1)
         saved == [id |-> savedSeq + 1, imageData |-> ld.imageData, width |-> w, height |-> h,
                   color |-> ld.color, timestamp |-> savedSeq + 1]
     IN /\ savedSignatures' = AddSavedSignature(savedSignatures, saved)
        /\ storage' = saveSavedSignatures(storage, savedSignatures', ok)
        /\ SignatureElementAdd(
             NewSignatureElement(clock + 1, ld.imageData, w, h, ld.color,
                                 ld.pageNumber, clock + 1))
        /\ lastOp' = Op("imgOnload", clock + 1)
  /\ clock' = clock + 1
  /\ savedSeq' = savedSeq + 1
  /\ imgLoads' = RemoveAt(imgLoads, i)
  /\ showSignatureCanvas' = FALSE
  /\ UNCHANGED <<docOpen, loadState, numPages, textElements, currentPage,
                 editingTextId, editTimers>>
  /\ UNCHANGED componentVars

\* img.onerror of handleSignatureSave
ImgOnerror(i) ==
  /\ i \in 1..Len(imgLoads)
  /\ LET ld == imgLoads[i]
     IN /\ SignatureElementAdd(
             NewSignatureElement(clock + 1, ld.imageData,
                                 Fin(ld.canvasWidth, 1),
                                 Fin(ld.canvasHeight, 1), ld.color,
                                 ld.pageNumber, clock + 1))
        /\ lastOp' = Op("imgOnerror", clock + 1)
  /\ clock' = clock + 1
  /\ imgLoads' = RemoveAt(imgLoads, i)
  /\ showSignatureCanvas' = FALSE
  /\ UNCHANGED <<docOpen, loadState, numPages, textElements, currentPage,
                 editingTextId, savedSignatures, storage, editTimers,
                 savedSeq>>
  /\ UNCHANGED componentVars

\* handleSignatureCancel
SignatureCancel ==
  /\ DialogVisible
  /\ showSignatureCanvas' = FALSE
  /\ toolbarState' = [toolbarState EXCEPT !.selectedTool = "select"]
  /\ lastOp' = Op("signatureCancel", Null)
  /\ UNCHANGED <<docVars, currentPage, selVars, savedSignatures, storage,
                 editTimers, imgLoads, clock, savedSeq>>
  /\ UNCHANGED componentVars

\* <Dialog onOpenChange={setShowSignatureCanvas}>: the dialog's own close
\* button, overlay click or Escape call it with false
DialogOpenChange ==
  /\ DialogVisible
  /\ showSignatureCanvas' = FALSE
  /\ lastOp' = Op("dialogOpenChange", Null)
  /\ UNCHANGED <<docVars, currentPage, selVars, savedSignatures,
                 toolbarState, storage, editTimers, imgLoads, clock, savedSeq>>
  /\ UNCHANGED componentVars

\* ------------------------------------------------------ saved signatures
\* handleUseSavedSignature(savedSignatures[i])
UseSavedSignature(i) ==
  /\ docOpen /\ ~DialogVisible
  /\ i \in 1..Len(savedSignatures)
  /\ LET s == savedSignatures[i]
     IN SignatureElementAdd(
          NewSignatureElement(clock + 1, s.imageData, s.width, s.height,
                              s.color, currentPage, clock + 1))
  /\ clock' = clock + 1
  /\ lastOp' = Op("useSavedSignature", clock + 1)
  /\ UNCHANGED <<docOpen, loadState, numPages, textElements, currentPage,
                 editingTextId, showSignatureCanvas, savedSignatures, storage,
                 editTimers, imgLoads, savedSeq>>
  /\ UNCHANGED componentVars

\* handleDeleteSavedSignature(savedSignatures[i].id), then the persisting effect
DeleteSavedSignature(i, ok) ==
  /\ docOpen /\ ~DialogVisible
  /\ i \in 1..Len(savedSignatures)
  /\ savedSignatures' = RemoveById(savedSignatures, savedSignatures[i].id)
  /\ storage' = saveSavedSignatures(storage, savedSignatures', ok)
  /\ lastOp' = Op("deleteSavedSignature", savedSignatures[i].id)
  /\ UNCHANGED <<docVars, currentPage, selVars, showSignatureCanvas,
                 toolbarState, editTimers, imgLoads, clock, savedSeq>>
  /\ UNCHANGED componentVars

\* handleClearSavedSignatures, then the persisting effect
ClearSavedSignatures(ok) ==
  /\ docOpen /\ ~DialogVisible
  /\ savedSignatures # <<>>
  /\ savedSignatures' = <<>>
  /\ storage' = saveSavedSignatures(storage, savedSignatures', ok)
  /\ lastOp' = Op("clearSavedSignatures", Null)
  /\ UNCHANGED <<docVars, currentPage, selVars, showSignatureCanvas,
                 toolbarState, editTimers, imgLoads, clock, savedSeq>>
  /\ UNCHANGED componentVars

\* a new browser session: every useState initialiser runs again, the saved
\* list comes from loadSavedSignatures() and the mount effect persists it
Reload(ok) ==
  /\ docOpen' = FALSE
  /\ loadState' = "none"
  /\ numPages' = 0
  /\ textElements' = <<>>
  /\ signatureElements' = <<>>
  /\ currentPage' = 1
  /\ selectedTextId' = Null
  /\ selectedSignatureId' = Null
  /\ editingTextId' = Null
  /\ showSignatureCanvas' = FALSE
  /\ savedSignatures' = loadSavedSignatures(storage)
  /\ storage' = PersistLoaded(storage, ok)
  /\ toolbarState' = InitialToolbarState
  /\ editTimers' = {}
  /\ imgLoads' = <<>>
  /\ lastOp' = Op("reload", Null)
  /\ userZoom' = DefaultZoom
  /\ pageWidth' = 0
  /\ pageHeight' = 0
  /\ scaleInfo' = InitialScaleInfo
  /\ scaleTimers' = {}
  /\ gesture' = NoGesture
  /\ exportRun' = NoExport
  /\ tracker' = NoTracker
  /\ widgets' = InitialWidgets
  /\ fill' = NoFill
  /\ formatSeq' = 0
  /\ UNCHANGED <<clock, savedSeq, gestureSeq, exportSeq>>

\* --------------------------------------------------------------- viewer
editorVars == <<docOpen, loadState, numPages, textElements, signatureElements,
                currentPage, selectedTextId, selectedSignatureId,
                editingTextId, showSignatureCanvas, savedSignatures,
                toolbarState, storage, editTimers, imgLoads, clock, savedSeq>>

\* handlePageLoadSuccess: stores the page size and starts the 100 ms timer,
\* whose closure holds the page size and the user zoom of this render
PageLoadSuccess(size) ==
  /\ loadState = "loaded"
  /\ Cardinality(scaleTimers) < MaxScaleTimers
  /\ pageWidth' = size[1]
  /\ pageHeight' = size[2]
  /\ scaleTimers' = scaleTimers \cup
       {[pdfWidth |-> size[1], pdfHeight |-> size[2], userZoom |-> userZoom]}
  /\ lastOp' = Op("pageLoadSuccess", Null)
  /\ UNCHANGED <<editorVars, userZoom, scaleInfo, gestureVars, exportVars,
                 trackerVars, fillVars,
                 toolbarVars>>

\* the timer of handlePageLoadSuccess: if (pageRef.current) updateScaleInfo
ScaleTimerFire(t, rect) ==
  /\ t \in scaleTimers
  /\ scaleTimers' = scaleTimers \ {t}
  /\ scaleInfo' =
       IF loadState = "loaded"
       THEN updateScaleInfo(scaleInfo, t.pdfWidth, t.pdfHeight,
                            rect[1], rect[2], t.userZoom)
       ELSE scaleInfo
  /\ lastOp' = Op("scaleTimer", Null)
  /\ UNCHANGED <<editorVars, userZoom, pageWidth, pageHeight, gestureVars,
                 exportVars, trackerVars, fillVars,
                 toolbarVars>>

\* the tail the three zoom handlers share:
\* if (pageRef.current && pageWidth && pageHeight) updateScaleInfo(...)
ZoomToRescaling(newZoom, rect) ==
  /\ docOpen /\ ~DialogVisible
  /\ userZoom' = newZoom
  /\ scaleInfo' =
       IF loadState = "loaded" /\ pageWidth # 0 /\ pageHeight # 0
       THEN updateScaleInfo(scaleInfo, pageWidth, pageHeight,
                            rect[1], rect[2], newZoom)
       ELSE scaleInfo
  /\ textElements' =
       [i \in 1..Len(textElements) |->
          [textElements[i] EXCEPT !.x = (@ * newZoom) \div userZoom,
                                  !.y = (@ * newZoom) \div userZoom]]
  /\ lastOp' = Op("zoom", Null)
  /\ UNCHANGED <<docOpen, loadState, numPages, signatureElements,
                 currentPage, selVars, showSignatureCanvas, savedSignatures,
                 toolbarState, storage, editTimers, imgLoads, clock,
                 savedSeq, pageWidth, pageHeight, scaleTimers, gestureVars,
                 exportVars, trackerVars, fillVars,
                 toolbarVars>>
ZoomTo(newZoom, rect) ==
  /\ docOpen /\ ~DialogVisible
  /\ userZoom' = newZoom
  /\ scaleInfo' =
       IF loadState = "loaded" /\ pageWidth # 0 /\ pageHeight # 0
       THEN updateScaleInfo(scaleInfo, pageWidth, pageHeight,
                            rect[1], rect[2], newZoom)
       ELSE scaleInfo
  /\ lastOp' = Op("zoom", Null)
  /\ UNCHANGED <<editorVars, pageWidth, pageHeight, scaleTimers,
                 gestureVars, exportVars,
                 trackerVars, fillVars,
                 toolbarVars>>

\* zoomIn: Math.min(userZoom + 0.2, 3)
ZoomIn(rect) == ZoomTo(Min(userZoom + ZoomStep, MaxZoom), rect)

\* zoomOut: Math.max(userZoom - 0.2, 0.5)
ZoomOut(rect) == ZoomTo(Max(userZoom - ZoomStep, MinZoom), rect)

\* resetZoom: setUserZoom(1)
ResetZoom(rect) == ZoomTo(DefaultZoom, rect)

\* ------------------------------------------------- signature gestures
\* corner.includes(side)
Includes(corner, side) ==
  corner \in CASE side = "n" -> {"nw", "ne", "n"}
               [] side = "s" -> {"sw", "se", "s"}
               [] side = "e" -> {"ne", "se", "e"}
               [] side = "w" -> {"nw", "sw", "w"}

\* corner.length === 2
IsCornerHandle(corner) == corner \in {"nw", "ne", "sw", "se"}

\* handleMouseMove of handleResizeStart: the { width, height } it writes
ResizeSizeFree(corner, startWidth, startHeight, deltaX, deltaY) ==
  LET w1 == IF Includes(corner, "e")
            THEN NumMax(Fin(MinWidth, 1), NumAdd(startWidth, deltaX))
            ELSE startWidth
      w2 == IF Includes(corner, "w")
            THEN NumMax(Fin(MinWidth, 1), NumSub(startWidth, deltaX))
            ELSE w1
      h1 == IF Includes(corner, "s")
            THEN NumMax(Fin(MinHeight, 1), NumAdd(startHeight, deltaY))
            ELSE startHeight
      h2 == IF Includes(corner, "n")
            THEN NumMax(Fin(MinHeight, 1), NumSub(startHeight, deltaY))
            ELSE h1
  IN  <<w2, h2>>
ResizeSize(corner, startWidth, startHeight, deltaX, deltaY) ==
  LET w1 == IF Includes(corner, "e")
            THEN NumMax(Fin(MinWidth, 1), NumAdd(startWidth, deltaX))
            ELSE startWidth
      w2 == IF Includes(corner, "w")
            THEN NumMax(Fin(MinWidth, 1), NumSub(startWidth, deltaX))
            ELSE w1
      h1 == IF Includes(corner, "s")
            THEN NumMax(Fin(MinHeight, 1), NumAdd(startHeight, deltaY))
            ELSE startHeight
      h2 == IF Includes(corner, "n")
            THEN NumMax(Fin(MinHeight, 1), NumSub(startHeight, deltaY))
            ELSE h1
      aspectRatio == NumDiv(startWidth, startHeight)
  IN  IF IsCornerHandle(corner)
      THEN IF NumGreater(NumAbs(deltaX), NumAbs(deltaY))
           THEN <<w2, NumDiv(w2, aspectRatio)>>
           ELSE <<NumMul(h2, aspectRatio), h2>>
      ELSE <<w2, h2>>

\* a % b of JavaScript: the result has the sign of a
JsRem(a, b) == IF a >= 0 THEN a % b ELSE -((-a) % b)

\* Math.round(n / d): the nearest integer, halves towards +Infinity
RoundDiv(n, d) == (2 * n + d) \div (2 * d)

\* handleMouseMove of handleRotateStart: the rotation it writes, from the
\* angle difference in tenths of a degree
NewRotation(startRotation, angleDiff, shiftKey) ==
  LET raw == 10 * startRotation + angleDiff
      normalized == JsRem(JsRem(raw, 10 * FullTurn) + 10 * FullTurn,
                          10 * FullTurn)
  IN  IF shiftKey
      THEN RoundDiv(normalized, 10 * SnapStep) * SnapStep
      ELSE RoundDiv(normalized, 10)

\* handleSignatureElementUpdate(id, updates):
\* signatureElements.map(el => el.id === id ? { ...el, ...updates } : el)
ResizeSignature(seq, id, size) ==
  [i \in 1..Len(seq) |->
     IF seq[i].id = id
     THEN [seq[i] EXCEPT !.width = size[1], !.height = size[2]]
     ELSE seq[i]]

RotateSignature(seq, id, rotation) ==
  [i \in 1..Len(seq) |->
     IF seq[i].id = id THEN [seq[i] EXCEPT !.rotation = rotation]
     ELSE seq[i]]

\* what a gesture step leaves alone
GestureFrame ==
  UNCHANGED <<docOpen, loadState, numPages, textElements, currentPage,
              selVars, showSignatureCanvas, savedSignatures, toolbarState,
              storage, editTimers, imgLoads, clock, savedSeq, viewerVars,
              exportVars, trackerVars, fillVars,
                 toolbarVars>>

\* handleResizeStart(e, corner) on a handle of the selected signature
ResizeStart(id, corner) ==
  /\ id \in Rendered(signatureElements) /\ ~DialogVisible
  /\ selectedSignatureId = id
  /\ gesture.kind = "none"
  /\ LET el == signatureElements[FindById(signatureElements, id)]
     IN gesture' = [NoGesture EXCEPT !.kind = "resize", !.id = id,
                                     !.corner = corner,
                                     !.startWidth = el.width,
                                     !.startHeight = el.height,
                                     !.scale = scaleInfo.displayScale]
  /\ gestureSeq' = gestureSeq + 1
  /\ lastOp' = Op("resizeStart", id)
  /\ UNCHANGED signatureElements
  /\ GestureFrame

\* the mousemove / touchmove listener of a resize
ResizeMove(delta) ==
  /\ gesture.kind = "resize"
  /\ docOpen
  /\ signatureElements' =
       ResizeSignature(signatureElements, gesture.id,
         ResizeSize(gesture.corner, gesture.startWidth, gesture.startHeight,
                    NumDiv(Fin(delta[1], 1), gesture.scale),
                    NumDiv(Fin(delta[2], 1), gesture.scale)))
  /\ lastOp' = Op("resize", gesture.id)
  /\ UNCHANGED gestureVars
  /\ GestureFrame

\* handleRotateStart on the rotation handle of the selected signature
RotateStart(id) ==
  /\ id \in Rendered(signatureElements) /\ ~DialogVisible
  /\ selectedSignatureId = id
  /\ gesture.kind = "none"
  /\ LET el == signatureElements[FindById(signatureElements, id)]
     IN gesture' = [NoGesture EXCEPT !.kind = "rotate", !.id = id,
                                     !.startRotation = el.rotation]
  /\ gestureSeq' = gestureSeq + 1
  /\ lastOp' = Op("rotateStart", id)
  /\ UNCHANGED signatureElements
  /\ GestureFrame

\* the mousemove / touchmove listener of a rotation
RotateMove(angleDiff, shiftKey) ==
  /\ gesture.kind = "rotate"
  /\ docOpen
  /\ signatureElements' =
       RotateSignature(signatureElements, gesture.id,
                       NewRotation(gesture.startRotation, angleDiff, shiftKey))
  /\ lastOp' = Op("rotate", gesture.id)
  /\ UNCHANGED gestureVars
  /\ GestureFrame

\* handleMouseUp of either gesture: the listeners are removed
GestureEnd ==
  /\ gesture.kind # "none"
  /\ gesture' = NoGesture
  /\ lastOp' = Op("gestureEnd", Null)
  /\ UNCHANGED <<signatureElements, gestureSeq>>
  /\ GestureFrame

\* ------------------------------------------------------------------ drag
\* element => element.id === id ? { ...element, ...{ x, y } } : element
MoveElement(seq, id, x, y) ==
  [i \in 1..Len(seq) |->
     IF seq[i].id = id THEN [seq[i] EXCEPT !.x = x, !.y = y] ELSE seq[i]]

\* data.x / scale and data.y / scale
DragTarget(pos, scale) ==
  <<NumDiv(Fin(pos[1], 1), scale), NumDiv(Fin(pos[2], 1), scale)>>

\* the model keeps positions as integers: drags are taken at positions whose
\* quotient by the scale is a whole number
IsWhole(q) == q.k = "fin" /\ q.d = 1

\* what a drag step leaves alone
DragFrame ==
  UNCHANGED <<docOpen, loadState, numPages, currentPage, showSignatureCanvas,
              savedSignatures, toolbarState, storage, editTimers, imgLoads,
              clock, savedSeq, viewerVars, exportVars, trackerVars,
              fillVars, toolbarVars>>

\* react-draggable onStart on the drag handle of a text element (rendered
\* while the element is selected and not edited), on the image of a
\* signature of lines 67-366 of PDFUpload.tsx ("dragSignature") or of the
\* DraggableSignature of lines 367-660 ("dragThrottled"): handleStart
\* selects the element; the gesture starts at the position on screen
DragStart(kind, id) ==
  /\ ~DialogVisible /\ gesture.kind = "none"
  /\ IF kind = "dragText"
     THEN /\ id \in Rendered(textElements)
          /\ selectedTextId = id /\ editingTextId # id
          /\ selectedTextId' = id /\ selectedSignatureId' = Null
     ELSE /\ id \in Rendered(signatureElements)
          /\ selectedSignatureId' = id /\ selectedTextId' = Null
  /\ editingTextId' = Null
  /\ LET seq == IF kind = "dragText" THEN textElements ELSE signatureElements
         el == seq[FindById(seq, id)]
     IN  gesture' = [NoGesture EXCEPT
                       !.kind = kind, !.id = id,
                       !.scale = scaleInfo.displayScale,
                       !.screen = pdfToDisplay(scaleInfo,
                                               <<Fin(el.x, 1), Fin(el.y, 1)>>),
                       !.inThrottle = gesture.inThrottle]
  /\ gestureSeq' = gestureSeq + 1
  /\ lastOp' = Op("dragStart", id)
  /\ UNCHANGED <<textElements, signatureElements>>
  /\ DragFrame

\* onDrag of DraggableText and of the DraggableSignature of lines 67-366:
\* every move writes the position
DragMove(pos) ==
  /\ gesture.kind \in {"dragText", "dragSignature"}
  /\ LET target == DragTarget(pos, scaleInfo.displayScale)
     IN  /\ IsWhole(target[1]) /\ IsWhole(target[2])
         /\ IF gesture.kind = "dragText"
            THEN /\ textElements' = MoveElement(textElements, gesture.id,
                                                target[1].n, target[2].n)
                 /\ UNCHANGED signatureElements
            ELSE /\ signatureElements' =
                      MoveElement(signatureElements, gesture.id,
                                  target[1].n, target[2].n)
                 /\ UNCHANGED textElements
  /\ gesture' = [gesture EXCEPT !.screen = <<Fin(pos[1], 1), Fin(pos[2], 1)>>,
                                !.scale = scaleInfo.displayScale]
  /\ lastOp' = Op("drag", gesture.id)
  /\ UNCHANGED <<selVars, gestureSeq>>
  /\ DragFrame

\* onDrag of the DraggableSignature of lines 367-660: throttle(..., 16) lets
\* a move through only while inThrottle is not set
DragMoveThrottled(pos) ==
  /\ gesture.kind = "dragThrottled"
  /\ LET target == DragTarget(pos, scaleInfo.displayScale)
     IN  /\ IsWhole(target[1]) /\ IsWhole(target[2])
         /\ signatureElements' =
              IF gesture.inThrottle THEN signatureElements
              ELSE MoveElement(signatureElements, gesture.id,
                               target[1].n, target[2].n)
  /\ gesture' = [gesture EXCEPT !.screen = <<Fin(pos[1], 1), Fin(pos[2], 1)>>,
                                !.scale = scaleInfo.displayScale,
                                !.inThrottle = TRUE]
  /\ lastOp' = Op("drag", gesture.id)
  /\ UNCHANGED <<textElements, selVars, gestureSeq>>
  /\ DragFrame

\* setTimeout(() => inThrottle = false, limit)
ThrottleTimer ==
  /\ gesture.inThrottle
  /\ gesture' = [gesture EXCEPT !.inThrottle = FALSE]
  /\ lastOp' = Op("throttleTimer", Null)
  /\ UNCHANGED <<textElements, signatureElements, selVars, gestureSeq>>
  /\ DragFrame

\* onStop: handleStop only clears isDragging
DragStop ==
  /\ gesture.kind \in {"dragText", "dragSignature", "dragThrottled"}
  /\ gesture' = [NoGesture EXCEPT !.inThrottle = gesture.inThrottle]
  /\ lastOp' = Op("dragStop", Null)
  /\ UNCHANGED <<textElements, signatureElements, selVars, gestureSeq>>
  /\ DragFrame

\* ------------------------------------------------- fillFormFieldsFuzzy
\* a formData object is the sequence of its own [key, value] entries in
\* insertion order (the order of Object.keys); a value is a string or a
\* boolean, kept with its type and with String(value)
StringValue(text) == [type |-> "string", text |-> text]
BooleanValue(b) ==
  [type |-> "boolean", text |-> IF b THEN "true" ELSE "false"]
Undefined == [type |-> "undefined", text |-> "undefined"]

\* a member inherited from Object.prototype: formData is created as {}
FunctionValue ==
  [type |-> "function", text |-> "function Object() { [native code] }"]
ObjectPrototypeNames == {"constructor"}

DataKeys == {"", "Name", "NAME", "am", "FullName"}
DataValues ==
  {StringValue("John"), StringValue(""), BooleanValue(TRUE),
   BooleanValue(FALSE)}
PdfFieldNames == {"Name", "constructor"}
PdfFieldTypes ==
  {"PDFTextField", "PDFCheckBox", "PDFRadioGroup", "PDFDropdown",
   "PDFSignature"}

\* objects of at most MaxFormData own keys
FormDatas ==
  {fd \in UNION {[1..n -> [key : DataKeys, value : DataValues]] :
                   n \in 0..MaxFormData} :
     \A i, j \in 1..Len(fd) : fd[i].key = fd[j].key => i = j}

\* forms of one to MaxFormFields fields
Forms ==
  UNION {[1..n -> [name : PdfFieldNames, type : PdfFieldTypes]] :
           n \in 1..MaxFormFields}

UpperCase == "ABCDEFGHIJKLMNOPQRSTUVWXYZ"
LowerCase == "abcdefghijklmnopqrstuvwxyz"

\* String.prototype.toLowerCase, a character at a time
LowerChar(c) ==
  IF \E i \in 1..Len(UpperCase) : SubSeq(UpperCase, i, i) = c
  THEN LET i == CHOOSE i \in 1..Len(UpperCase) : SubSeq(UpperCase, i, i) = c
       IN  SubSeq(LowerCase, i, i)
  ELSE c

RECURSIVE toLowerCase(_)
toLowerCase(str) ==
  IF Len(str) = 0 THEN ""
  ELSE LowerChar(SubSeq(str, 1, 1)) \o toLowerCase(SubSeq(str, 2, Len(str)))

\* String.prototype.includes
StringIncludes(str, part) ==
  \E i \in 1..(Len(str) + 1) :
    /\ i + Len(part) - 1 <= Len(str)
    /\ SubSeq(str, i, i + Len(part) - 1) = part

\* formData[key]
GetValue(formData, key) ==
  IF \E i \in 1..Len(formData) : formData[i].key = key
  THEN formData[CHOOSE i \in 1..Len(formData) : formData[i].key = key].value
  ELSE IF key \in ObjectPrototypeNames THEN FunctionValue ELSE Undefined

\* toLowerCase of the keys and field names in use, computed once
Lowered == [str \in DataKeys \cup PdfFieldNames |-> toLowerCase(str)]

\* k.toLowerCase() === fieldName.toLowerCase()
CaseInsensitiveEqual(k, fieldName) == Lowered[k] = Lowered[fieldName]

\* the pairs with fieldName.toLowerCase().includes(k.toLowerCase())
\*   || k.toLowerCase().includes(fieldName.toLowerCase()), computed once
PartialMatches ==
  {p \in DataKeys \X PdfFieldNames :
     \/ StringIncludes(Lowered[p[2]], Lowered[p[1]])
     \/ StringIncludes(Lowered[p[1]], Lowered[p[2]])}
PartialMatch(k, fieldName) == <<k, fieldName>> \in PartialMatches

\* dataKeys.find(...) over the entries at the indices hits, those the test
\* accepts: the first such key, with found FALSE for undefined
FindKey(formData, hits) ==
  IF hits = {} THEN [found |-> FALSE, key |-> ""]
  ELSE [found |-> TRUE,
        key |-> formData[CHOOSE i \in hits : \A j \in hits : i <= j].key]

\* the entries whose key is the field name, equals it ignoring case, or
\* matches it partially
ExactHits(formData, fieldName) ==
  {i \in 1..Len(formData) : formData[i].key = fieldName}
CaseInsensitiveHits(formData, fieldName) ==
  {i \in 1..Len(formData) : CaseInsensitiveEqual(formData[i].key, fieldName)}
PartialHits(formData, fieldName) ==
  {i \in 1..Len(formData) : PartialMatch(formData[i].key, fieldName)}

\* if (key): undefined and the empty string are falsy
Truthy(k) == k.found /\ k.key # ""

\* the value fillFormFieldsFuzzy ends up with for a field (lines 195-206)
FieldValue(formData, fieldName) ==
  LET exact == GetValue(formData, fieldName)
      ciKey == FindKey(formData, CaseInsensitiveHits(formData, fieldName))
      afterCi == IF exact = Undefined /\ Truthy(ciKey)
                 THEN GetValue(formData, ciKey.key) ELSE exact
      partialKey == FindKey(formData, PartialHits(formData, fieldName))
  IN  IF afterCi = Undefined /\ Truthy(partialKey)
      THEN GetValue(formData, partialKey.key) ELSE afterCi

\* what the loop body does to the field (lines 207-234): the pdf-lib call it
\* makes, if any, with its argument; a call that throws is caught and
\* leaves the field as it was
FillOne(field, fieldValue, throws) ==
  LET none == [call |-> "none", text |-> ""]
      call ==
        IF fieldValue = Undefined THEN none
        ELSE IF field.type = "PDFTextField"
        THEN [call |-> "setText", text |-> fieldValue.text]
        ELSE IF field.type = "PDFCheckBox"
        THEN IF fieldValue.type = "boolean"
             THEN [call |-> IF fieldValue.text = "true" THEN "check"
                            ELSE "uncheck",
                   text |-> ""]
             ELSE none
        ELSE IF field.type \in {"PDFRadioGroup", "PDFDropdown"}
        THEN IF fieldValue.type = "string" /\ fieldValue.text # ""
             THEN [call |-> "select", text |-> fieldValue.text]
             ELSE none
        ELSE none
  IN  [name |-> field.name, type |-> field.type, value |-> fieldValue,
       filled |-> IF throws THEN none ELSE call]

\* what a step of the fill leaves alone
FillFrame ==
  UNCHANGED <<editorVars, viewerVars, gestureVars, exportVars, trackerVars,
              toolbarVars>>

\* fillFormFieldsFuzzy(form, formData) is called: form.getFields() and
\* Object.keys(formData)
FillStart ==
  /\ fill.pc = "idle"
  /\ \E form \in Forms, formData \in FormDatas :
       fill' = [pc |-> "loop", formData |-> formData,
                fields |-> [j \in 1..Len(form) |->
                              FillOne(form[j], Undefined, TRUE)],
                i |-> 1]
  /\ lastOp' = Op("fillStart", Null)
  /\ FillFrame

\* one pass of for (const field of fields)
FillField(throws) ==
  /\ fill.pc = "loop"
  /\ LET field == fill.fields[fill.i]
         done == FillOne(field, FieldValue(fill.formData, field.name),
                         throws)
     IN  fill' = [fill EXCEPT !.fields[fill.i] = done,
                              !.i = fill.i + 1,
                              !.pc = IF fill.i = Len(fill.fields)
                                     THEN "done" ELSE "loop"]
  /\ lastOp' = Op("fillField", Null)
  /\ FillFrame

\* ---------------------------------------------------------------- export
\* what the querySelector chain of an export finds: nothing, the
\* .react-pdf__Document container only, the .react-pdf__Page in it but no
\* canvas, or the canvas; react-pdf renders the page once the document loaded
DomAnchors == {"none", "container", "page", "canvas"}
AnchorsNow ==
  IF loadState = "loaded" THEN DomAnchors ELSE {"none", "container"}

\* String.prototype.trim on the contents the model types
Trim(content) == IF content \in {"", " "} THEN "" ELSE content

\* array.filter(element => element.pageNumber === page)
OnPage(seq, page) == SelectSeq(seq, LAMBDA e : e.pageNumber = page)

\* exportAsPDF: currentPageTextElements.forEach(...) with its try/catch; the
\* ids handed to pdf.text, fails being the elements for which a jsPDF call
\* throws
RECURSIVE AddTextElements(_, _)
AddTextElements(elements, fails) ==
  IF elements = <<>> THEN {}
  ELSE LET textElement == Head(elements)
           rest == AddTextElements(Tail(elements), fails)
       IN  IF Trim(textElement.content) = "" THEN rest
           ELSE IF textElement.id \in fails THEN rest
           ELSE {textElement.id} \cup rest

\* exportAsPDF: the loop over the [data-signature-overlay] nodes; an overlay
\* whose id is not among the closure's signatures of the page is skipped
\* (continue), one whose pdf.addImage throws is caught
RECURSIVE AddSignatureOverlays(_, _, _)
AddSignatureOverlays(overlays, pageSignatures, fails) ==
  IF overlays = <<>> THEN {}
  ELSE LET signatureId == Head(overlays).id
           rest == AddSignatureOverlays(Tail(overlays), pageSignatures, fails)
       IN  IF FindById(pageSignatures, signatureId) = 0 THEN rest
           ELSE IF signatureId \in fails THEN rest
           ELSE {signatureId} \cup rest

\* the overlays in the DOM: the viewer's elements of the page on screen
Overlays(seq) ==
  IF loadState = "loaded" THEN OnPage(seq, currentPage) ELSE <<>>

\* elements whose drawing may throw during a run
FailSets == SUBSET (Ids(textElements) \cup Ids(signatureElements))

\* a new run may start once the previous one has ended (runs that overlap
\* share nothing: each has its own closure and its own output document)
ExportIdle == exportRun.pc \in {"idle", "done"}

ExportFrame ==
  UNCHANGED <<editorVars, viewerVars, gestureVars, trackerVars, fillVars,
                 toolbarVars>>

\* handleExportPDF up to the 200 ms wait of exportAsPDF
ExportPDFStart ==
  /\ docOpen /\ ExportIdle
  /\ exportRun' = [NoExport EXCEPT !.kind = "pdf", !.pc = "wait",
                     !.textElements = textElements,
                     !.signatureElements = signatureElements,
                     !.currentPage = currentPage, !.numPages = numPages,
                     !.toasts = <<"Exporting as PDF...">>]
  /\ exportSeq' = exportSeq + 1
  /\ lastOp' = Op("exportPDF", Null)
  /\ ExportFrame

\* a thrown error reaches the catch of the handler: toast 'Export Failed'
ExportFailed(run) ==
  [run EXCEPT !.pc = "done", !.toasts = Append(@, "Export Failed")]

\* exportAsPDF after the wait, a failing element ending the export: the
\* loops without their try/catch
ExportPDFRunAborting(anchor, fails, saveOk) ==
  /\ exportRun.kind = "pdf" /\ exportRun.pc = "wait"
  /\ LET texts == OnPage(exportRun.textElements, exportRun.currentPage)
         pageSignatures ==
           OnPage(exportRun.signatureElements, exportRun.currentPage)
         drawnTexts == AddTextElements(texts, {})
         drawnSignatures ==
           AddSignatureOverlays(Overlays(signatureElements), pageSignatures, {})
     IN  exportRun' =
           IF anchor # "canvas" \/ ~saveOk
              \/ (drawnTexts \cup drawnSignatures) \cap fails # {}
           THEN ExportFailed(exportRun)
           ELSE [exportRun EXCEPT !.pc = "done", !.saved = TRUE,
                   !.texts = drawnTexts, !.signatures = drawnSignatures,
                   !.toasts = Append(@, "PDF Export Complete")]
  /\ lastOp' = Op("exportPDFRun", Null)
  /\ UNCHANGED exportSeq
  /\ ExportFrame

\* exportAsPDF after the wait (everything from the querySelector chain to
\* pdf.save runs without another await) and the rest of handleExportPDF
ExportPDFRun(anchor, fails, saveOk) ==
  /\ exportRun.kind = "pdf" /\ exportRun.pc = "wait"
  /\ LET texts == OnPage(exportRun.textElements, exportRun.currentPage)
         pageSignatures ==
           OnPage(exportRun.signatureElements, exportRun.currentPage)
     IN  exportRun' =
           IF anchor # "canvas" \/ ~saveOk
           THEN ExportFailed(exportRun)
           ELSE [exportRun EXCEPT !.pc = "done", !.saved = TRUE,
                   !.texts = AddTextElements(texts, fails),
                   !.signatures =
                     AddSignatureOverlays(Overlays(signatureElements),
                                          pageSignatures, fails),
                   !.toasts = Append(@, "PDF Export Complete")]
  /\ lastOp' = Op("exportPDFRun", Null)
  /\ UNCHANGED exportSeq
  /\ ExportFrame

\* addCustomElements: both loops; an element of a page the document does not
\* have is skipped (continue), one whose embedding or drawing throws is
\* caught, a signature that embeds neither as PNG nor as JPEG is skipped
RECURSIVE addCustomElements(_, _, _)
addCustomElements(elements, pages, fails) ==
  IF elements = <<>> THEN {}
  ELSE LET element == Head(elements)
           pageIndex == element.pageNumber - 1
           rest == addCustomElements(Tail(elements), pages, fails)
       IN  IF pageIndex < 0 \/ pageIndex >= pages THEN rest
           ELSE IF element.id \in fails THEN rest
           ELSE {element.id} \cup rest

\* exportPDFWithFormData(document, ...) of pdf-lib-export.ts up to its first
\* await; the editor's export menu does not call it, so it shows no toast
ExportFormPDFStart ==
  /\ docOpen /\ ExportIdle
  /\ exportRun' = [NoExport EXCEPT !.kind = "formPdf", !.pc = "wait",
                     !.textElements = textElements,
                     !.signatureElements = signatureElements,
                     !.currentPage = currentPage, !.numPages = numPages]
  /\ exportSeq' = exportSeq + 1
  /\ lastOp' = Op("exportFormPDF", Null)
  /\ ExportFrame

\* the rest of exportPDFWithFormData: loading the bytes and the form work
\* (prepOk), addCustomElements, pdfDoc.save and saveAs (saveOk); its library
\* calls are awaited one after the other and read only the closure
ExportFormPDFRun(prepOk, fails, saveOk) ==
  /\ exportRun.kind = "formPdf" /\ exportRun.pc = "wait"
  /\ exportRun' =
       IF ~prepOk \/ ~saveOk THEN [exportRun EXCEPT !.pc = "done"]
       ELSE [exportRun EXCEPT !.pc = "done", !.saved = TRUE,
               !.texts = addCustomElements(exportRun.textElements,
                                           exportRun.numPages, fails),
               !.signatures = addCustomElements(exportRun.signatureElements,
                                                exportRun.numPages, fails)]
  /\ lastOp' = Op("exportFormPDFRun", Null)
  /\ UNCHANGED exportSeq
  /\ ExportFrame

\* handleExportImage up to the 200 ms wait of exportAsImage
ExportImageStart ==
  /\ docOpen /\ ExportIdle
  /\ exportRun' = [NoExport EXCEPT !.kind = "image", !.pc = "wait",
                     !.toasts = <<"Exporting as Image...">>]
  /\ exportSeq' = exportSeq + 1
  /\ lastOp' = Op("exportImage", Null)
  /\ ExportFrame

\* textOverlays.forEach(...): an overlay without text content (an empty
\* element, or one showing its input) returns, a throwing one is caught
RECURSIVE DrawTextOverlays(_, _)
DrawTextOverlays(overlays, fails) ==
  IF overlays = <<>> THEN {}
  ELSE LET element == Head(overlays)
           rest == DrawTextOverlays(Tail(overlays), fails)
       IN  IF element.content = "" \/ element.id = editingTextId THEN rest
           ELSE IF element.id \in fails THEN rest
           ELSE {element.id} \cup rest

\* exportAsImage after the wait, up to await Promise.all(signaturePromises):
\* the querySelector chain, getContext('2d') (ctxOk), the text overlays and
\* one image load started per signature overlay
ExportImageRun(anchor, ctxOk, fails) ==
  /\ exportRun.kind = "image" /\ exportRun.pc = "wait"
  /\ exportRun' =
       IF anchor # "canvas" \/ ~ctxOk THEN ExportFailed(exportRun)
       ELSE [exportRun EXCEPT !.pc = "loading",
               !.texts = DrawTextOverlays(Overlays(textElements), fails),
               !.signatureElements = Overlays(signatureElements)]
  /\ lastOp' = Op("exportImageRun", Null)
  /\ UNCHANGED exportSeq
  /\ ExportFrame

\* every image load has settled (onload draws, a throwing draw and onerror
\* resolve all the same), Promise.all resolves, toBlob is called with its
\* callback, exportAsImage returns and handleExportImage shows its toast
ExportImageLoaded(fails) ==
  /\ exportRun.kind = "image" /\ exportRun.pc = "loading"
  /\ exportRun' =
       [exportRun EXCEPT !.pc = "blob",
          !.signatures = Ids(exportRun.signatureElements) \ fails,
          !.toasts = Append(@, "Image Export Complete")]
  /\ lastOp' = Op("exportImageLoaded", Null)
  /\ UNCHANGED exportSeq
  /\ ExportFrame

\* the toBlob callback: saveAs(blob) or, without a blob, a throw that no
\* try block of exportAsImage or handleExportImage is waiting for any more
ExportImageBlob(blobOk) ==
  /\ exportRun.kind = "image" /\ exportRun.pc = "blob"
  /\ exportRun' = [exportRun EXCEPT !.pc = "done", !.saved = blobOk]
  /\ lastOp' = Op("exportImageBlob", Null)
  /\ UNCHANGED exportSeq
  /\ ExportFrame

\* String.prototype.substring(start, end) for 0 <= start <= end
Substring(str, start, end) == SubSeq(str, start + 1, Min(end, Len(str)))

\* exportProjectData: the object handed to JSON.stringify (filename and
\* timestamp, which the model's document does not carry, left out); each
\* signature record is the spread of the element with imageDataPreview added
exportProjectData(texts, signatures, pages) ==
  [numPages |-> pages,
   textElements |-> texts,
   signatureElements |->
     [i \in 1..Len(signatures) |->
        ("imageDataPreview" :>
           (Substring(signatures[i].imageData, 0, PreviewLength)
              \o "...[truncated]")) @@ signatures[i]],
   version |-> "2.0"]

\* handleExportProject: synchronous; saveOk is whether Blob / saveAs return
\* without throwing
ExportProject(saveOk) ==
  /\ docOpen /\ ExportIdle
  /\ exportRun' =
       IF saveOk
       THEN [NoExport EXCEPT !.kind = "project", !.pc = "done",
               !.textElements = textElements,
               !.signatureElements = signatureElements,
               !.currentPage = currentPage, !.numPages = numPages,
               !.saved = TRUE,
               !.project = exportProjectData(textElements, signatureElements,
                                             numPages),
               !.toasts = <<"Exporting Project...",
                            "Project Export Complete">>]
       ELSE [NoExport EXCEPT !.kind = "project", !.pc = "done",
               !.toasts = <<"Exporting Project...", "Export Failed">>]
  /\ exportSeq' = exportSeq + 1
  /\ lastOp' = Op("exportProject", Null)
  /\ ExportFrame

\* ---------------------------------------------------- form-field tracker
\* the widgets are in the DOM once the document has loaded
WidgetsInDom == IF loadState = "loaded" THEN 1..Len(WidgetNames) ELSE {}

\* input.name || ... || `field_${pageNumber}_${index}` (the widgets carry no
\* id, data-field-name or title; index is the 0-based position in the scan)
FieldName(i) ==
  IF WidgetNames[i] # "" THEN WidgetNames[i]
  ELSE "field_1_" \o ToString(i - 1)

\* `form_field_${pageNumber}_${index}`
FieldId(i) == "form_field_1_" \o ToString(i - 1)

\* formFields.findIndex(f => f.fieldName === fieldName), 0 for -1
FindByFieldName(fields, fieldName) ==
  LET hits == {k \in 1..Len(fields) : fields[k].fieldName = fieldName}
  IN  IF hits = {} THEN 0 ELSE CHOOSE k \in hits : \A j \in hits : k <= j

\* document.querySelector(`[name="${fieldName}"], [id="${fieldName}"]`):
\* the first widget in document order with that name, 0 for null
QueryByName(fieldName) ==
  LET hits == {i \in WidgetsInDom : WidgetNames[i] = fieldName}
  IN  IF hits = {} THEN 0 ELSE CHOOSE i \in hits : \A j \in hits : i <= j

\* this.formData[fieldName] = value
SetFormData(formData, fieldName, value) ==
  [n \in DOMAIN formData \cup {fieldName} |->
     IF n = fieldName THEN value ELSE formData[n]]

\* trackFormElement(element, index) on widget i: the field record (id, name
\* and value of it; type and geometry left out) replaces the one with the
\* same id or is pushed, formData[fieldName] is set and the listener is
\* (re)attached with fieldName in its closure
trackFormElement(st, i) ==
  LET formField == [id |-> FieldId(i), fieldName |-> FieldName(i),
                    value |-> st.widgets[i].checked]
      existingFieldIndex == FindById(st.tracker.formFields, FieldId(i))
  IN  [tracker |->
         [st.tracker EXCEPT
            !.formFields =
               IF existingFieldIndex > 0
               THEN [@ EXCEPT ![existingFieldIndex] = formField]
               ELSE Append(@, formField),
            !.formData = SetFormData(@, FieldName(i), formField.value)],
       widgets |-> [st.widgets EXCEPT ![i].listener = FieldName(i)]]

\* scanForFormFields: formElements.forEach(trackFormElement) from widget i on
RECURSIVE ScanFrom(_, _)
ScanFrom(st, i) ==
  IF i \notin WidgetsInDom THEN st
  ELSE ScanFrom(trackFormElement(st, i), i + 1)

scanForFormFields == ScanFrom([tracker |-> tracker, widgets |-> widgets], 1)

TrackerFrame ==
  UNCHANGED <<editorVars, viewerVars, gestureVars, exportVars, fillVars,
              toolbarVars>>

\* getFormFieldTracker() while no tracker exists: new FormFieldTracker()
\* starts the 1 s interval and the 500 ms timeout
GetFormFieldTracker ==
  /\ tracker.status = "none"
  /\ tracker' = [NoTracker EXCEPT !.status = "tracking", !.interval = TRUE,
                   !.timeout = TRUE]
  /\ lastOp' = Op("getFormFieldTracker", Null)
  /\ UNCHANGED widgets
  /\ TrackerFrame

\* the callback of setTimeout(() => this.scanForFormFields(), 500)
InitialScan ==
  /\ tracker.timeout
  /\ tracker' = [scanForFormFields.tracker EXCEPT !.timeout = FALSE]
  /\ widgets' = scanForFormFields.widgets
  /\ lastOp' = Op("initialScan", Null)
  /\ TrackerFrame

\* a tick of setInterval(() => this.scanForFormFields(), 1000)
IntervalScan ==
  /\ tracker.interval
  /\ tracker' = scanForFormFields.tracker
  /\ widgets' = scanForFormFields.widgets
  /\ lastOp' = Op("intervalScan", Null)
  /\ TrackerFrame

\* the listener of addFieldEventListeners, fieldName being its closure
FieldListener(tr, fieldName, value) ==
  LET fieldIndex == FindByFieldName(tr.formFields, fieldName)
  IN  [tr EXCEPT
         !.formData = SetFormData(@, fieldName, value),
         !.formFields = IF fieldIndex > 0
                        THEN [@ EXCEPT ![fieldIndex].value = value]
                        ELSE @]

\* the user toggles widget i: its input / change event runs the listener the
\* widget carries, if any
WidgetInput(i) ==
  /\ i \in WidgetsInDom
  /\ widgets' = [widgets EXCEPT ![i].checked = ~@]
  /\ tracker' = IF widgets[i].listener = "none" THEN tracker
                ELSE FieldListener(tracker, widgets[i].listener,
                                   ~widgets[i].checked)
  /\ lastOp' = Op("widgetInput", Null)
  /\ TrackerFrame

\* updateFormData(fieldName, value) on the live tracker
UpdateFormData(fieldName, value) ==
  /\ tracker.status = "tracking"
  /\ tracker' = FieldListener(tracker, fieldName, value)
  /\ widgets' = IF QueryByName(fieldName) = 0 THEN widgets
                ELSE [widgets EXCEPT ![QueryByName(fieldName)].checked = value]
  /\ lastOp' = Op("updateFormData", Null)
  /\ TrackerFrame

\* destroy(): the listener is removed from the element querySelector finds
\* for each tracked field
RECURSIVE RemoveListeners(_, _)
RemoveListeners(ws, fields) ==
  IF fields = <<>> THEN ws
  ELSE LET element == QueryByName(Head(fields).fieldName)
       IN  RemoveListeners(IF element = 0 THEN ws
                           ELSE [ws EXCEPT ![element].listener = "none"],
                           Tail(fields))

\* destroyFormFieldTracker() while a tracker exists: destroy() and
\* formFieldTracker = null
DestroyFormFieldTracker ==
  /\ tracker.status = "tracking"
  /\ widgets' = RemoveListeners(widgets, tracker.formFields)
  /\ tracker' = [tracker EXCEPT !.status = "destroyed", !.interval = FALSE,
                   !.formFields = <<>>, !.formData = <<>>]
  /\ lastOp' = Op("destroyFormFieldTracker", Null)
  /\ TrackerFrame

\* ------------------------------------------------------- specifications
\* Editing session: every handler of the editor view; the persisting
\* effect succeeds (StorageOk) and the session is not restarted
StorageOk == {TRUE}

Next ==
  \/ FileUpload
  \/ \E n \in PageCounts : DocumentLoadSuccess(n)
  \/ DocumentLoadError
  \/ \E dir \in {"prev", "next"} : PageChange(dir)
  \/ /\ \E t \in ClickTargets, p \in ClickPoints : CanvasClick(t, p[1], p[2])
     /\ clock' <= MaxClock
  \/ \E id \in editTimers : EditTimerFire(id)
  \/ \E id \in Ids(textElements) : TextElementSelect(id)
  \/ \E id \in Ids(signatureElements) : SignatureElementSelect(id)
  \/ \E id \in Ids(textElements) : StartEdit(id)
  \/ StopEdit
  \/ \E id \in Ids(textElements) : TextElementDelete(id)
  \/ \E id \in Ids(signatureElements) : SignatureElementDelete(id)
  \/ \E tool \in Tools : ToolbarSelectTool(tool)
  \/ /\ \E key \in Keys, target \in KeyTargets : KeyDown(key, target)
     /\ clock' <= MaxClock
  \/ \E img \in Images : SignatureSave(img)
  \/ /\ \E i \in 1..Len(imgLoads), nat \in NaturalSizes, ok \in StorageOk :
          ImgOnload(i, nat, ok)
     /\ clock' <= MaxClock /\ savedSeq' <= MaxSavedSeq
  \/ /\ \E i \in 1..Len(imgLoads) : ImgOnerror(i)
     /\ clock' <= MaxClock
  \/ SignatureCancel
  \/ DialogOpenChange
  \/ /\ \E i \in 1..Len(savedSignatures) : UseSavedSignature(i)
     /\ clock' <= MaxClock
  \/ \E i \in 1..Len(savedSignatures), ok \in StorageOk :
       DeleteSavedSignature(i, ok)
  \/ \E ok \in StorageOk : ClearSavedSignatures(ok)

Spec == Init /\ [][Next]_vars

\* Saved-signature library across sessions: the editor starts on whatever
\* list the storage key holds, signatures are drawn and saved, saved entries
\* are removed (the newest or the oldest one) and the page is reloaded, which
\* reads the list back from storage.  Writing a list that grew may throw
\* (quota), which saveSavedSignatures swallows.
StorageOutcomes == BOOLEAN

\* a well-formed stored list of n saved signatures, newest first
StoredSignatures(n) ==
  [i \in 1..n |->
     [id |-> n + 1 - i, imageData |-> "imgA",
      width |-> Fin(DefaultCanvasWidth, 1),
      height |-> Fin(DefaultCanvasHeight, 1), color |-> "#000000",
      timestamp |-> n + 1 - i]]

\* what localStorage.getItem(SAVED_SIGNATURES_KEY) finds at startup: nothing,
\* or a JSON array left by an earlier session or by anything else that
\* writes the origin's storage
StartupSizes == {0, SavedLimit, SavedLimit + 1}
StoredAtStartup ==
  {[kind |-> "absent", value |-> <<>>]} \cup
  {[kind |-> "array", value |-> StoredSignatures(n)] : n \in StartupSizes}

\* useState(() => loadSavedSignatures()) and the mount run of the
\* persisting effect
InitSaved ==
  /\ InitSession
  /\ \E st \in StoredAtStartup, ok \in StorageOutcomes :
       /\ savedSignatures = loadSavedSignatures(st)
       /\ storage = saveSavedSignatures(st, savedSignatures, ok)
  /\ savedSeq = Len(savedSignatures)
EndsOf(seq) == {i \in 1..Len(seq) : i = 1 \/ i = Len(seq)}

NextSaved ==
  \/ FileUpload
  \/ KeyDown("s", "other")
  \/ \E img \in Images : SignatureSave(img)
  \/ /\ \E i \in 1..Len(imgLoads), nat \in NaturalSizes,
           ok \in StorageOutcomes : ImgOnload(i, nat, ok)
     /\ savedSeq' <= MaxSavedRun
  \/ \E i \in EndsOf(savedSignatures), ok \in StorageOk :
       DeleteSavedSignature(i, ok)
  \/ \E ok \in StorageOk : ClearSavedSignatures(ok)
  \/ \E ok \in StorageOk : Reload(ok)

SpecSaved == InitSaved /\ [][NextSaved]_vars

\* The page view: a document is opened, elements are placed on it, pages
\* report their size and the user zooms.
NextView ==
  \/ FileUpload
  \/ \E n \in PageCounts : DocumentLoadSuccess(n)
  \/ /\ \E key \in {"t", "s"} : KeyDown(key, "other")
     /\ clock' <= MaxClock
  \/ /\ \E p \in ClickPoints : CanvasClick("page", p[1], p[2])
     /\ clock' <= MaxClock
  \/ \E img \in Images : SignatureSave(img)
  \/ /\ \E i \in 1..Len(imgLoads), nat \in NaturalSizes, ok \in StorageOk :
          ImgOnload(i, nat, ok)
     /\ clock' <= MaxClock /\ savedSeq' <= MaxSavedSeq
  \/ \E size \in PageSizes : PageLoadSuccess(size)
  \/ \E t \in scaleTimers, rect \in DisplayRects : ScaleTimerFire(t, rect)
  \/ /\ \E rect \in DisplayRects : ZoomIn(rect)
     /\ userZoom' <= MaxViewZoom
  \/ \E rect \in DisplayRects : ZoomOut(rect)
  \/ \E rect \in DisplayRects : ResetZoom(rect)

SpecView == Init /\ [][NextView]_vars

\* Signature gestures: a signature is drawn and placed, then resized and
\* rotated by its handles.
NextGesture ==
  \/ FileUpload
  \/ \E n \in PageCounts : DocumentLoadSuccess(n)
  \/ KeyDown("s", "other")
  \/ \E img \in Images : SignatureSave(img)
  \/ /\ \E i \in 1..Len(imgLoads), nat \in NaturalSizes, ok \in StorageOk :
          ImgOnload(i, nat, ok)
     /\ clock' <= MaxClock /\ savedSeq' <= MaxSavedRun
  \/ /\ \E id \in Ids(signatureElements), corner \in Corners :
          ResizeStart(id, corner)
     /\ gestureSeq' <= MaxGestures
  \/ \E delta \in PointerDeltas : ResizeMove(delta)
  \/ /\ \E id \in Ids(signatureElements) : RotateStart(id)
     /\ gestureSeq' <= MaxGestures
  \/ \E angleDiff \in AngleDiffs, shiftKey \in BOOLEAN :
       RotateMove(angleDiff, shiftKey)
  \/ GestureEnd

SpecGesture == Init /\ [][NextGesture]_vars

\* Inline text editing: text elements are placed, edited in place and the
\* edit is left by Enter, Escape or blur.
NextEdit ==
  \/ FileUpload
  \/ \E n \in PageCounts : DocumentLoadSuccess(n)
  \/ /\ \E key \in {"t", "escape"}, target \in {"input", "other"} :
          KeyDown(key, target)
     /\ clock' <= MaxClock
  \/ /\ \E p \in ClickPoints : CanvasClick("page", p[1], p[2])
     /\ clock' <= MaxClock
  \/ \E id \in editTimers : EditTimerFire(id)
  \/ \E id \in Ids(textElements) : TextElementSelect(id)
  \/ \E id \in Ids(textElements) : StartEdit(id)
  \/ \E value \in Contents : TextChange(value)
  \/ \E key \in InputKeys : InputKeyDown(key)
  \/ InputBlur

SpecEdit == Init /\ [][NextEdit]_vars

\* Export: a document is opened, text and a signature are placed, a text is
\* blanked, the page is changed, and an export is started and run to its end.
NextExport ==
  \/ FileUpload
  \/ \E n \in PageCounts : DocumentLoadSuccess(n)
  \/ \E dir \in {"prev", "next"} : PageChange(dir)
  \/ /\ \E key \in {"t", "s"} : KeyDown(key, "other")
     /\ clock' <= MaxClock
  \/ /\ \E p \in ClickPoints : CanvasClick("page", p[1], p[2])
     /\ clock' <= MaxClock
  \/ \E id \in editTimers : EditTimerFire(id)
  \/ TextChange(" ")
  \/ \E img \in Images : SignatureSave(img)
  \/ /\ \E i \in 1..Len(imgLoads), nat \in NaturalSizes, ok \in StorageOk :
          ImgOnload(i, nat, ok)
     /\ clock' <= MaxClock /\ savedSeq' <= MaxSavedSeq
  \/ /\ ExportPDFStart
     /\ exportSeq' <= MaxExports
  \/ \E anchor \in AnchorsNow, fails \in FailSets, saveOk \in BOOLEAN :
       ExportPDFRun(anchor, fails, saveOk)
  \/ /\ ExportFormPDFStart
     /\ exportSeq' <= MaxExports
  \/ \E prepOk \in BOOLEAN, fails \in FailSets, saveOk \in BOOLEAN :
       ExportFormPDFRun(prepOk, fails, saveOk)
  \/ /\ ExportImageStart
     /\ exportSeq' <= MaxExports
  \/ \E anchor \in AnchorsNow, ctxOk \in BOOLEAN, fails \in FailSets :
       ExportImageRun(anchor, ctxOk, fails)
  \/ \E fails \in FailSets : ExportImageLoaded(fails)
  \/ \E blobOk \in BOOLEAN : ExportImageBlob(blobOk)

SpecExport == Init /\ [][NextExport]_vars

\* Project export: signatures with a short and with a long image payload
\* and text are placed, and the project data is saved.
RECURSIVE Repeat(_, _)
Repeat(str, n) == IF n = 0 THEN "" ELSE str \o Repeat(str, n - 1)

\* a data URL of more than PreviewLength characters
LongImages == {"data:image/png;base64," \o Repeat("A", PreviewLength)}

NextProject ==
  \/ FileUpload
  \/ \E n \in PageCounts : DocumentLoadSuccess(n)
  \/ /\ \E key \in {"t", "s"} : KeyDown(key, "other")
     /\ clock' <= MaxClock
  \/ /\ \E p \in ClickPoints : CanvasClick("page", p[1], p[2])
     /\ clock' <= MaxClock
  \/ \E id \in editTimers : EditTimerFire(id)
  \/ \E img \in Images \cup LongImages : SignatureSave(img)
  \/ /\ \E i \in 1..Len(imgLoads), nat \in NaturalSizes, ok \in StorageOk :
          ImgOnload(i, nat, ok)
     /\ clock' <= MaxClock /\ savedSeq' <= MaxSavedRun
  \/ /\ \E saveOk \in BOOLEAN : ExportProject(saveOk)
     /\ exportSeq' <= MaxExports

SpecProject == Init /\ [][NextProject]_vars

\* The form-field tracker over one lifetime of the singleton: a document is
\* opened, the tracker is created, scans, follows the widgets and is torn
\* down.
FieldNames == {FieldName(i) : i \in 1..Len(WidgetNames)}

NextTracker ==
  \/ FileUpload
  \/ \E n \in PageCounts : DocumentLoadSuccess(n)
  \/ GetFormFieldTracker
  \/ InitialScan
  \/ IntervalScan
  \/ \E i \in 1..Len(WidgetNames) : WidgetInput(i)
  \/ \E fieldName \in FieldNames, value \in BOOLEAN :
       UpdateFormData(fieldName, value)
  \/ DestroyFormFieldTracker

SpecTracker == Init /\ [][NextTracker]_vars

\* Dragging: elements are placed, the page reports its size and elements
\* are dragged by their handles.
DragKinds == {"dragText", "dragSignature", "dragThrottled"}

NextDrag ==
  \/ FileUpload
  \/ \E n \in PageCounts : DocumentLoadSuccess(n)
  \/ PageLoadSuccess(<<600, 800>>)
  \/ \E t \in scaleTimers : ScaleTimerFire(t, <<300, 400>>)
  \/ /\ \E key \in {"t", "s"} : KeyDown(key, "other")
     /\ clock' <= MaxClock
  \/ /\ \E p \in ClickPoints : CanvasClick("page", p[1], p[2])
     /\ clock' <= MaxClock
  \/ \E id \in editTimers : EditTimerFire(id)
  \/ InputBlur
  \/ \E img \in Images : SignatureSave(img)
  \/ /\ \E i \in 1..Len(imgLoads), nat \in NaturalSizes, ok \in StorageOk :
          ImgOnload(i, nat, ok)
     /\ clock' <= MaxClock /\ savedSeq' <= MaxSavedSeq
  \/ /\ \E kind \in DragKinds,
           id \in Ids(textElements) \cup Ids(signatureElements) :
          DragStart(kind, id)
     /\ gestureSeq' <= MaxGestures
  \/ \E pos \in DragPositions : DragMove(pos)
  \/ \E pos \in DragPositions : DragMoveThrottled(pos)
  \/ ThrottleTimer
  \/ DragStop

SpecDrag == Init /\ [][NextDrag]_vars

\* Form filling: fillFormFieldsFuzzy runs over a form and a formData object.
NextFill ==
  \/ FillStart
  \/ \E throws \in BOOLEAN : FillField(throws)

SpecFill == Init /\ [][NextFill]_vars

\* Text formatting: elements are placed and selected, and the formatting
\* controls of the toolbar are used.
NextToolbar ==
  \/ FileUpload
  \/ \E n \in PageCounts : DocumentLoadSuccess(n)
  \/ /\ \E key \in {"t", "s"} : KeyDown(key, "other")
     /\ clock' <= MaxClock
  \/ /\ \E p \in ClickPoints : CanvasClick("page", p[1], p[2])
     /\ clock' <= MaxClock
  \/ \E id \in editTimers : EditTimerFire(id)
  \/ InputBlur
  \/ \E id \in Ids(textElements) : TextElementSelect(id)
  \/ \E id \in Ids(signatureElements) : SignatureElementSelect(id)
  \/ \E img \in Images : SignatureSave(img)
  \/ /\ \E i \in 1..Len(imgLoads), nat \in NaturalSizes, ok \in StorageOk :
          ImgOnload(i, nat, ok)
     /\ clock' <= MaxClock /\ savedSeq' <= MaxSavedSeq
  \/ /\ \E attr \in FormatAttrs :
          \E value \in FormatValues(attr) : ToolbarChange(attr, value)
     /\ formatSeq' <= MaxFormats

SpecToolbar == Init /\ [][NextToolbar]_vars

\* Startup on whatever the storage key holds, a value that is not a list of
\* saved signatures included, followed by text work and reloads; nothing is
\* saved to, or removed from, the signature library.
StoredMalformed ==
  {[kind |-> "unparseable", value |-> <<>>],
   [kind |-> "object", value |-> JsonObject]}

InitStartup ==
  /\ InitSession
  /\ \E st \in StoredAtStartup \cup StoredMalformed, ok \in StorageOutcomes :
       /\ savedSignatures = loadSavedSignatures(st)
       /\ storage = PersistLoaded(st, ok)
       /\ savedSeq = IF st.kind = "array" THEN Len(st.value) ELSE 0

NextStartup ==
  \/ FileUpload
  \/ \E n \in PageCounts : DocumentLoadSuccess(n)
  \/ /\ KeyDown("t", "other")
     /\ clock' <= MaxClock
  \/ /\ \E p \in ClickPoints : CanvasClick("page", p[1], p[2])
     /\ clock' <= MaxClock
  \/ \E id \in editTimers : EditTimerFire(id)
  \/ \E ok \in StorageOutcomes : Reload(ok)

SpecStartup == InitStartup /\ [][NextStartup]_vars

\* =================================================================== claims
AllElements ==
  {textElements[i] : i \in 1..Len(textElements)} \cup
  {signatureElements[i] : i \in 1..Len(signatureElements)}

C2_EditingImpliesSelected ==
  editingTextId = Null \/ editingTextId = selectedTextId

\* C3: right after a delete handler ran for id, the element is gone from its
\* collection and no selection or edit state refers to id.
C3_DeleteClearsState ==
  /\ lastOp.op = "textDelete" =>
       /\ lastOp.id \notin Ids(textElements)
       /\ selectedTextId # lastOp.id
       /\ editingTextId # lastOp.id
  /\ lastOp.op = "signatureDelete" =>
       /\ lastOp.id \notin Ids(signatureElements)
       /\ selectedSignatureId # lastOp.id

C3_Witness ==
  /\ lastOp.op \in {"textDelete", "signatureDelete"}
  /\ selectedTextId = Null /\ selectedSignatureId = Null
  /\ Len(textElements) + Len(signatureElements) < clock

\* a click on the page that places an element: the text tool is armed, or
\* the signature tool is armed and a signature is selected
PlacingClick ==
  /\ \E p \in ClickPoints : CanvasClick("page", p[1], p[2])
  /\ \/ toolbarState.selectedTool = "text"
     \/ toolbarState.selectedTool = "signature" /\ selectedSignatureId # Null

\* C4: every canvas click that places an element (text tool: creates a text
\* element; signature tool with a selected signature: positions it) leaves
\* the tool mode at "select".
C4_PlacementRevertsTool ==
  [][PlacingClick => toolbarState'.selectedTool = "select"]_vars

\* C5: after the Escape shortcut was handled the tool is "select" and the
\* text selection, the signature selection and the edit state are all null.
C5_EscapeClearsAll ==
  lastOp.op = "escape" =>
    /\ toolbarState.selectedTool = "select"
    /\ selectedTextId = Null
    /\ selectedSignatureId = Null
    /\ editingTextId = Null

C5_Witness ==
  /\ lastOp.op = "escape"
  /\ textElements # <<>> /\ signatureElements # <<>>
  /\ toolbarState.selectedTool = "select"
  /\ selectedTextId = Null /\ selectedSignatureId = Null

\* C6: a key event that arrives while a text element is in inline-edit mode,
\* or whose target is an input or a textarea, changes neither the tool mode,
\* the selection, the signature dialog nor the element collections.
C6_ShortcutsSuppressed ==
  [][\A key \in Keys, target \in KeyTargets :
       (KeyDown(key, target) /\
        (editingTextId # Null \/ target \in {"input", "textarea"}))
       => UNCHANGED <<toolbarState, selectedTextId, selectedSignatureId,
                      editingTextId, showSignatureCanvas, textElements,
                      signatureElements>>]_vars

C6_Witness ==
  /\ lastOp.op = "suppressed"
  /\ editingTextId # Null
  /\ selectedTextId = editingTextId

\* a Ctrl+D key event that passes the handler's guard while an element is
\* selected
DuplicateStep ==
  /\ \E target \in KeyTargets :
       KeyDown("ctrl+d", target) /\ ~ShortcutSuppressed(target)
  /\ selectedTextId # Null \/ selectedSignatureId # Null

\* C7: Ctrl+D with an element selected appends exactly one element to the
\* collection of the selected element; its id is new, its x and y are the
\* source's plus 20, every other attribute is the source's, the existing
\* elements are unchanged and the duplicate is the only selected element.
C7_Duplicate ==
  [][DuplicateStep =>
       IF selectedTextId # Null
       THEN LET src == textElements[FindById(textElements, selectedTextId)]
                dup == textElements'[Len(textElements')]
            IN /\ textElements' = Append(textElements, dup)
               /\ signatureElements' = signatureElements
               /\ dup.id \notin Ids(textElements) \cup Ids(signatureElements)
               /\ dup.x = src.x + 20 /\ dup.y = src.y + 20
               /\ dup.content = src.content
               /\ dup.fontSize = src.fontSize
               /\ dup.fontFamily = src.fontFamily
               /\ dup.color = src.color
               /\ dup.fontWeight = src.fontWeight
               /\ dup.fontStyle = src.fontStyle
               /\ dup.pageNumber = src.pageNumber
               /\ selectedTextId' = dup.id
               /\ selectedSignatureId' = Null
       ELSE LET src == signatureElements[FindById(signatureElements,
                                                  selectedSignatureId)]
                dup == signatureElements'[Len(signatureElements')]
            IN /\ signatureElements' = Append(signatureElements, dup)
               /\ textElements' = textElements
               /\ dup.id \notin Ids(textElements) \cup Ids(signatureElements)
               /\ dup.x = src.x + 20 /\ dup.y = src.y + 20
               /\ dup.imageData = src.imageData
               /\ dup.width = src.width /\ dup.height = src.height
               /\ dup.rotation = src.rotation
               /\ dup.color = src.color
               /\ dup.opacity = src.opacity
               /\ dup.pageNumber = src.pageNumber
               /\ selectedSignatureId' = dup.id
               /\ selectedTextId' = Null]_vars

C7_Witness ==
  /\ lastOp.op = "duplicate"
  /\ selectedTextId = lastOp.id
  /\ Len(textElements) = 2
  /\ textElements[2].id = lastOp.id
  /\ textElements[2].x = textElements[1].x + DuplicateOffset

\* C8: the saved-signature list, in memory and as stored under the storage
\* key, never has more than 10 entries, the list loaded at startup included.
C8_SavedBounded ==
  /\ Len(savedSignatures) <= 10
  /\ Len(loadSavedSignatures(storage)) <= 10

\* C9: reusing a saved signature with a document open appends exactly one
\* signature element with the saved entry's image data, width, height and
\* color, at (50, 50), rotation 0, opacity 1, on the current page; it becomes
\* the selected element and the saved list is unchanged.
C9_UseSavedSignature ==
  [][\A i \in 1..Len(savedSignatures) :
       (docOpen /\ UseSavedSignature(i)) =>
         LET s == savedSignatures[i]
             el == signatureElements'[Len(signatureElements')]
         IN /\ signatureElements' = Append(signatureElements, el)
            /\ textElements' = textElements
            /\ el.id \notin Ids(signatureElements)
            /\ el.imageData = s.imageData
            /\ el.width = s.width /\ el.height = s.height
            /\ el.color = s.color
            /\ el.x = 50 /\ el.y = 50
            /\ el.rotation = 0 /\ el.opacity = 1
            /\ el.pageNumber = currentPage
            /\ selectedSignatureId' = el.id
            /\ selectedTextId' = Null
            /\ savedSignatures' = savedSignatures]_vars

C9_Witness ==
  /\ lastOp.op = "useSavedSignature"
  /\ selectedSignatureId = lastOp.id
  /\ savedSignatures # <<>>
  /\ \E i \in 1..Len(signatureElements) :
       /\ signatureElements[i].id = lastOp.id
       /\ signatureElements[i].imageData = savedSignatures[1].imageData
       /\ signatureElements[i].width = savedSignatures[1].width

\* C10: every element's page number p satisfies 1 <= p <= numPages.
C10_PageInRange ==
  \A e \in AllElements : 1 <= e.pageNumber /\ e.pageNumber <= numPages

\* a zoomIn, zoomOut or resetZoom step
ZoomOperation ==
  \E rect \in DisplayRects : ZoomIn(rect) \/ ZoomOut(rect) \/ ResetZoom(rect)

\* C11: a zoom operation leaves both element collections (every element's
\* position, size and font size) and all other state unchanged; only the
\* user zoom and the scale info change.
C11_ZoomLeavesElements ==
  [][ZoomOperation =>
       UNCHANGED <<textElements, signatureElements, docOpen, loadState,
                   numPages, currentPage, selVars, showSignatureCanvas,
                   savedSignatures, toolbarState, storage, pageWidth,
                   pageHeight>>]_vars

C11_Witness ==
  /\ textElements # <<>> /\ signatureElements # <<>>
  /\ userZoom # DefaultZoom
  /\ scaleInfo.userZoom = userZoom
  /\ scaleInfo.displayScale \notin {Fin(1, 1), Fin(0, 1), Infinity, NaN}

\* a PDF point as numbers of the scale arithmetic
PdfPoint(p) == <<Fin(p[1], 1), Fin(p[2], 1)>>

\* C12: with the display scale of any reachable state, converting a PDF
\* point to display space and back gives the point again.
C12_RoundTrip ==
  \A p \in PdfPoints :
    displayToPDF(scaleInfo, pdfToDisplay(scaleInfo, PdfPoint(p))) = PdfPoint(p)

\* C13: a scale recompute with pdfWidth = 0 keeps the display scale it found.
C13_ZeroWidthKeepsScale ==
  [][\A t \in scaleTimers, rect \in DisplayRects :
       (ScaleTimerFire(t, rect) /\ loadState = "loaded" /\ t.pdfWidth = 0)
       => scaleInfo'.displayScale = scaleInfo.displayScale]_vars

\* C14: every rotation a signature element holds, the ones written by a
\* rotate gesture included, satisfies 0 <= r < 360.
C14_RotationInRange ==
  \A i \in 1..Len(signatureElements) :
    /\ 0 <= signatureElements[i].rotation
    /\ signatureElements[i].rotation < 360

\* the signature element the running gesture writes to
GestureElement == signatureElements[FindById(signatureElements, gesture.id)]

\* C15: the size a resize gesture has just written has width >= 20 and
\* height >= 10, whichever of the eight handles is dragged.
C15_MinimumSize ==
  lastOp.op = "resize" =>
    /\ ~NumGreater(Fin(20, 1), GestureElement.width)
    /\ ~NumGreater(Fin(10, 1), GestureElement.height)

\* C16: every size written during a corner-handle resize has the aspect
\* ratio of the size at gesture start: width * startHeight = height * startWidth.
C16_CornerKeepsAspect ==
  [][\A delta \in PointerDeltas :
       (ResizeMove(delta) /\ IsCornerHandle(gesture.corner)) =>
         \A i \in 1..Len(signatureElements') :
           signatureElements'[i].id = gesture.id =>
             NumMul(signatureElements'[i].width, gesture.startHeight)
               = NumMul(signatureElements'[i].height, gesture.startWidth)]_vars

C16_Witness ==
  /\ lastOp.op = "resize"
  /\ IsCornerHandle(gesture.corner)
  /\ GestureElement.width # gesture.startWidth
  /\ GestureElement.height.d # 1
  /\ gesture.startWidth # Fin(300, 1)

\* a step that leaves the inline edit: Enter or Escape in the input, or blur
LeaveEdit ==
  \/ \E key \in {"Enter", "Escape"} : InputKeyDown(key)
  \/ InputBlur

\* C17: Enter, Escape and blur of the inline input each set editingTextId to
\* null and leave every text element's content as last typed.
C17_LeaveEditKeepsContent ==
  [][LeaveEdit => (editingTextId' = Null /\ textElements' = textElements)]_vars

C17_Witness ==
  /\ lastOp.op = "inputEscape"
  /\ editingTextId = Null
  /\ \E i \in 1..Len(textElements) :
       /\ textElements[i].id = lastOp.id
       /\ textElements[i].content = "abc"

\* C18: while the storage key holds nothing, unparseable text or JSON that is
\* not an array, a session that has saved no signature has an empty
\* saved-signature list.
C18_MalformedStartsEmpty ==
  storage.kind \in {"absent", "unparseable", "object"} => savedSignatures = <<>>
\* the text elements of a run's closure that exportAsPDF has to draw: those
\* of the closure's page with content other than white space
PdfTexts(run) ==
  {run.textElements[i].id :
     i \in {j \in 1..Len(run.textElements) :
              /\ run.textElements[j].pageNumber = run.currentPage
              /\ Trim(run.textElements[j].content) # ""}}

\* the signatures exportAsPDF has to draw: those on screen that the
\* closure's document has on the closure's page
PdfSignatures(run) ==
  Rendered(signatureElements) \cap
  {run.signatureElements[i].id :
     i \in {j \in 1..Len(run.signatureElements) :
              run.signatureElements[j].pageNumber = run.currentPage}}

\* the elements exportPDFWithFormData has to draw: those of existing pages
FormPdfElements(seq, run) ==
  {seq[i].id : i \in {j \in 1..Len(seq) : seq[j].pageNumber \in 1..run.numPages}}

\* C19: a PDF export whose page canvas is found and whose file can be saved
\* hands over a file that holds every element it has to draw except the ones
\* whose drawing failed, and (from the export menu) ends with the completion
\* notification; this holds for exportAsPDF and for exportPDFWithFormData.
C19_FailedElementAloneOmitted ==
  [][/\ \A fails \in FailSets :
          ExportPDFRun("canvas", fails, TRUE)
          => /\ exportRun'.pc = "done" /\ exportRun'.saved
             /\ exportRun'.texts = PdfTexts(exportRun) \ fails
             /\ exportRun'.signatures = PdfSignatures(exportRun) \ fails
             /\ exportRun'.toasts[Len(exportRun'.toasts)]
                  = "PDF Export Complete"
     /\ \A fails \in FailSets :
          ExportFormPDFRun(TRUE, fails, TRUE)
          => /\ exportRun'.pc = "done" /\ exportRun'.saved
             /\ exportRun'.texts
                  = FormPdfElements(exportRun.textElements, exportRun) \ fails
             /\ exportRun'.signatures
                  = FormPdfElements(exportRun.signatureElements, exportRun)
                      \ fails]_vars

\* a saved PDF that lacks one text element it had to draw (its drawing
\* failed) and holds another element
C19_Witness ==
  /\ exportRun.kind = "pdf" /\ exportRun.pc = "done" /\ exportRun.saved
  /\ PdfTexts(exportRun) \ exportRun.texts # {}
  /\ exportRun.texts \cup exportRun.signatures # {}

\* C20: an export started from the menu that has ended without handing over
\* a file has shown 'Export Failed' last and has not shown a completion
\* notification.
C20_NoArtifactMeansFailed ==
  (exportRun.kind \in {"pdf", "image"} /\ exportRun.pc = "done"
     /\ ~exportRun.saved)
  => /\ exportRun.toasts[Len(exportRun.toasts)] = "Export Failed"
     /\ \A i \in 1..Len(exportRun.toasts) :
          exportRun.toasts[i] \notin {"PDF Export Complete",
                                      "Image Export Complete"}
\* C21: in a saved project file, the record of a signature whose imageData
\* is longer than 100 characters holds the complete payload in none of its
\* image fields.
C21_NoCompletePayload ==
  (exportRun.kind = "project" /\ exportRun.saved)
  => \A i \in 1..Len(exportRun.signatureElements) :
       LET payload == exportRun.signatureElements[i].imageData
           record == exportRun.project.signatureElements[i]
       IN  Len(payload) > PreviewLength
           => \A field \in {"imageData", "imageDataPreview"} \cap DOMAIN record :
                \/ Len(record[field]) < Len(payload)
                \/ SubSeq(record[field], 1, Len(payload)) # payload
\* the text elements of a run's closure with non-blank content, of any page
SessionTexts(run) ==
  {run.textElements[i].id :
     i \in {j \in 1..Len(run.textElements) :
              Trim(run.textElements[j].content) # ""}}

\* C22: a PDF export from the menu in which no drawing fails, the canvas is
\* found and the file is saved draws every text element with non-blank
\* content and every signature element of the document, whatever its page.
C22_ExportDrawsEveryElement ==
  [][ExportPDFRun("canvas", {}, TRUE)
       => /\ exportRun'.saved
          /\ exportRun'.texts = SessionTexts(exportRun)
          /\ exportRun'.signatures = Ids(exportRun.signatureElements)]_vars
ScanStep == InitialScan \/ IntervalScan

\* C23: once the tracker is torn down, no step is a scan started by one of
\* its timers, and its field list and form data are and stay empty.
C23_NoScanAfterTeardown ==
  [][tracker.status = "destroyed"
       => /\ ~ScanStep
          /\ tracker'.formFields = <<>>
          /\ tracker'.formData = <<>>]_vars

\* C30: while the tracker is live, every tracked field's value is the form
\* data entry of its name.
C30_FormDataMatchesFields ==
  tracker.status = "tracking"
  => \A k \in 1..Len(tracker.formFields) :
       LET f == tracker.formFields[k]
       IN  /\ f.fieldName \in DOMAIN tracker.formData
           /\ tracker.formData[f.fieldName] = f.value
\* the element a drag gesture moves
DraggedElement ==
  IF gesture.kind = "dragText"
  THEN textElements[FindById(textElements, gesture.id)]
  ELSE signatureElements[FindById(signatureElements, gesture.id)]

C25_ScaleInfoFollowsZoom ==
  (scaleTimers = {} /\ pageWidth # 0 /\ pageHeight # 0)
    => scaleInfo.userZoom = userZoom
\* the formData values of the keys that match a field name under a tier
ValuesAt(formData, hits) == {formData[i].value : i \in hits}

\* C26: every field the fill has passed got the value of a key of the first
\* tier that has a matching key (exact, then case-insensitive, then
\* containment), and was left unfilled only if no key matches in any tier.
C26_FillByStrictPriority ==
  \A j \in 1..(fill.i - 1) :
    LET f == fill.fields[j]
        exact == ValuesAt(fill.formData, ExactHits(fill.formData, f.name))
        ci == ValuesAt(fill.formData,
                       CaseInsensitiveHits(fill.formData, f.name))
        partial == ValuesAt(fill.formData,
                            PartialHits(fill.formData, f.name))
    IN  /\ exact # {} => f.value \in exact
        /\ (exact = {} /\ ci # {}) => f.value \in ci
        /\ (exact = {} /\ ci = {} /\ partial # {}) => f.value \in partial
        /\ f.filled.call = "none" => exact \cup ci \cup partial = {}

\* C28: selectedTextId and editingTextId are each null or the id of a text
\* element of the document, and selectedSignatureId is null or the id of a
\* signature element of the document.
C28_SelectionRefersToElement ==
  /\ selectedTextId \in Ids(textElements) \cup {Null}
  /\ editingTextId \in Ids(textElements) \cup {Null}
  /\ selectedSignatureId \in Ids(signatureElements) \cup {Null}

C27_FormatOnlySelectedText ==
  [][\A attr \in FormatAttrs :
       \A value \in FormatValues(attr) :
         ToolbarChange(attr, value)
           => /\ signatureElements' = signatureElements
              /\ Len(textElements') = Len(textElements)
              /\ \A i \in 1..Len(textElements) :
                   textElements'[i] =
                     IF textElements[i].id = selectedTextId
                     THEN [textElements[i] EXCEPT ![attr] = value]
                     ELSE textElements[i]]_vars

\* a formatting change was applied to the selected text element while two
\* text elements exist, and the other one differs from it
C27_Witness ==
  /\ lastOp.op = "toolbarFormat" /\ lastOp.id # Null
  /\ \E i, j \in 1..Len(textElements) :
       /\ textElements[i].id = lastOp.id /\ textElements[j].id # lastOp.id
       /\ textElements[i].color = toolbarState.color
       /\ textElements[j].color # toolbarState.color
====
